---------------------------- MODULE Spec2Model ----------------------------
(***************************************************************************)
(* State-machine model of the conversational engine of My_chatbot:         *)
(* the lexicon tables and detectors of src/bot.py, the mood engine, the    *)
(* reply dispatcher AdvancedBot.generate_reply, the wrapper                *)
(* AdvancedBot.respond and the HTTP handler of src/app.py.                 *)
(*                                                                         *)
(* Texts are TLA+ strings and the regular expressions of the source are    *)
(* evaluated character by character on them.  Conventions:                 *)
(*   - Python's None is the value None below;                              *)
(*   - an intensity weight w is held in tenths (2.5 is 25), so that        *)
(*     int(3 * w) is (3 * tenths) \div 10;                                 *)
(*   - a timestamp is the value of a logical clock, now;                   *)
(*   - the few non-ASCII glyphs of the reply templates (emoji, dashes,     *)
(*     bullets) are written with ASCII stand-ins.                          *)
(***************************************************************************)
EXTENDS Integers, Sequences, FiniteSets, TLC

None == "<None>"

(***************************************************************************)
(* Strings                                                                 *)
(***************************************************************************)
UpperCase == "ABCDEFGHIJKLMNOPQRSTUVWXYZ"
LowerCase == "abcdefghijklmnopqrstuvwxyz"
Digits == "0123456789"
Whitespace == {" ", "\t", "\n", "\r"}

CharAt(s, i) == SubSeq(s, i, i)

CharsOf(s) == {CharAt(s, i) : i \in 1..Len(s)}

ToLower == [c \in CharsOf(UpperCase) |->
              CharAt(LowerCase, CHOOSE i \in 1..Len(UpperCase) : CharAt(UpperCase, i) = c)]

ToUpper == [c \in CharsOf(LowerCase) |->
              CharAt(UpperCase, CHOOSE i \in 1..Len(LowerCase) : CharAt(LowerCase, i) = c)]

\* str.lower() on one character
CharLower(c) == IF c \in DOMAIN ToLower THEN ToLower[c] ELSE c

\* str.upper() on one character
CharUpper(c) == IF c \in DOMAIN ToUpper THEN ToUpper[c] ELSE c

RECURSIVE lower(_)
lower(s) == IF s = "" THEN "" ELSE CharLower(Head(s)) \o lower(Tail(s))

RECURSIVE lstrip(_, _)
lstrip(s, chars) ==
  IF s # "" /\ Head(s) \in chars THEN lstrip(Tail(s), chars) ELSE s

RECURSIVE rstrip(_, _)
rstrip(s, chars) ==
  IF s # "" /\ CharAt(s, Len(s)) \in chars
  THEN rstrip(SubSeq(s, 1, Len(s) - 1), chars)
  ELSE s

strip(s) == rstrip(lstrip(s, Whitespace), Whitespace)

\* str.title() on a token of letters: first letter upper case, the rest lower
title(s) == IF s = "" THEN "" ELSE CharUpper(Head(s)) \o lower(Tail(s))

\* the regular-expression class \w on ASCII text
WordChars == CharsOf(LowerCase) \cup CharsOf(UpperCase) \cup CharsOf(Digits) \cup {"_"}

IsWordChar(c) == c \in WordChars

\* the regular-expression class [A-Za-z]
Letters == CharsOf(LowerCase) \cup CharsOf(UpperCase)

IsLetter(c) == c \in Letters

\* Python's "p in t"
Contains(t, p) == \E i \in 1..(Len(t) - Len(p) + 1) : SubSeq(t, i, i + Len(p) - 1) = p

\* re.search(r"(a|b|...)", t): some alternative occurs somewhere in t
re_search(alternatives, t) == \E a \in alternatives : Contains(t, a)

\* re.search(r"\b(a|b|...)\b", t): every alternative of the lexicons starts and
\* ends with a \w character, so \b holds before it iff no \w character precedes
\* it, and after it iff no \w character follows it
re_search_words(alternatives, t) ==
  \E a \in alternatives : \E i \in 1..(Len(t) - Len(a) + 1) :
    /\ SubSeq(t, i, i + Len(a) - 1) = a
    /\ i = 1 \/ ~IsWordChar(CharAt(t, i - 1))
    /\ i + Len(a) - 1 = Len(t) \/ ~IsWordChar(CharAt(t, i + Len(a)))

(***************************************************************************)
(* Lexicon tables, in the order of the source                              *)
(***************************************************************************)
EMOTION_PATTERNS ==
  << [label |-> "sad", pattern |-> {"sad", "depressed", "down", "unhappy", "miserable", "crying", "heartbroken",
          "gloomy", "blue", "tears", "weeping"}],
     [label |-> "angry", pattern |-> {"angry", "mad", "furious", "pissed", "rage", "annoyed", "irritated", "frustrated",
          "livid", "outraged"}],
     [label |-> "anxious", pattern |-> {"anxious", "worried", "nervous", "stressed", "overwhelmed", "panic", "tense",
          "uneasy", "restless", "on edge"}],
     [label |-> "lonely", pattern |-> {"lonely", "alone", "isolated", "nobody", "no one cares", "feel empty", "abandoned",
          "disconnected"}],
     [label |-> "guilty", pattern |-> {"guilty", "ashamed", "regret", "fault", "bad person", "messed up",
          "shouldn't have", "feel terrible about"}],
     [label |-> "jealous", pattern |-> {"jealous", "envious", "envy", "they have", "wish i had", "not fair", "why them",
          "comparing myself"}],
     [label |-> "disappointed", pattern |-> {"disappointed", "let down", "expected more", "failed", "didn't work out",
          "upset about", "bummed"}],
     [label |-> "hurt", pattern |-> {"hurt", "wounded", "betrayed", "backstabbed", "used", "taken advantage",
          "disrespected"}],
     [label |-> "scared", pattern |-> {"scared", "afraid", "terrified", "fearful", "frightened", "paranoid", "dread",
          "horrified"}],
     [label |-> "confused", pattern |-> {"confused", "lost", "don't understand", "unclear", "puzzled", "bewildered",
          "mixed up", "disoriented"}],
     [label |-> "tired", pattern |-> {"tired", "exhausted", "drained", "burnt out", "burnout", "fatigue", "no energy",
          "can't anymore", "worn out"}],
     [label |-> "overwhelmed", pattern |-> {"overwhelmed", "too much", "can't handle", "drowning", "suffocating", "buried",
          "swamped"}],
     [label |-> "hopeless", pattern |-> {"hopeless", "no point", "give up", "pointless", "nothing matters", "no way out",
          "can't see future"}],
     [label |-> "insecure", pattern |-> {"insecure", "not good enough", "inadequate", "unworthy", "don't deserve",
          "not capable"}],
     [label |-> "happy", pattern |-> {"happy", "joy", "joyful", "cheerful", "delighted", "pleased", "content", "blessed",
          "thrilled"}],
     [label |-> "excited", pattern |-> {"excited", "thrilled", "pumped", "stoked", "can't wait", "eager", "enthusiastic",
          "amped", "hyped"}],
     [label |-> "proud", pattern |-> {"proud", "accomplished", "achieved", "nailed it", "did it", "success", "won",
          "victory", "made it"}],
     [label |-> "grateful", pattern |-> {"grateful", "thankful", "blessed", "appreciate", "lucky", "fortunate", "privilege"}],
     [label |-> "relieved", pattern |-> {"relieved", "relief", "finally", "glad it's over", "off my chest", "weight lifted",
          "phew"}],
     [label |-> "loved", pattern |-> {"loved", "appreciated", "valued", "cherished", "supported", "cared for",
          "matter to someone"}],
     [label |-> "hopeful", pattern |-> {"hopeful", "optimistic", "looking forward", "excited for", "things will",
          "get better", "positive about"}],
     [label |-> "confident", pattern |-> {"confident", "self-assured", "can do", "believe in myself", "got this", "ready",
          "prepared"}],
     [label |-> "bored", pattern |-> {"bored", "boring", "nothing to do", "dull", "monotonous", "uninteresting",
          "restless", "idle"}],
     [label |-> "numb", pattern |-> {"numb", "empty", "void", "hollow", "feel nothing", "don't feel", "emotionless",
          "detached"}],
     [label |-> "nostalgic", pattern |-> {"nostalgic", "miss", "used to", "remember when", "back then", "old days", "memories"}],
     [label |-> "curious", pattern |-> {"curious", "wonder", "wondering", "interested", "want to know", "question",
          "intrigued"}] >>

INTENSITY_MODIFIERS ==
  << [modifier |-> "very", weight |-> 20],
     [modifier |-> "extremely", weight |-> 25],
     [modifier |-> "really", weight |-> 18],
     [modifier |-> "so", weight |-> 17],
     [modifier |-> "incredibly", weight |-> 22],
     [modifier |-> "slightly", weight |-> 5],
     [modifier |-> "a bit", weight |-> 6],
     [modifier |-> "little", weight |-> 7],
     [modifier |-> "somewhat", weight |-> 8],
     [modifier |-> "kinda", weight |-> 7] >>

PRIORITY_INTENTS ==
  << [label |-> "self_harm", pattern |-> {"kill myself", "suicide", "end my life", "want to die", "self harm", "hurt myself",
          "don't want to live"}],
     [label |-> "greeting", pattern |-> {"hi", "hello", "hey", "namaste", "good morning", "good evening", "yo", "sup",
          "wassup", "hola"}],
     [label |-> "bye", pattern |-> {"bye", "goodbye", "see you", "take care", "farewell", "gotta go", "later"}],
     [label |-> "thanks", pattern |-> {"thank", "thanks", "thank you", "appreciate", "tyvm", "grateful", "thx"}],
     [label |-> "insult", pattern |-> {"stupid", "idiot", "you suck", "dumb", "trash", "worthless", "useless", "shut up"}] >>

CONTEXT_PATTERNS ==
  << [label |-> "breakup", pattern |-> {"broke up", "breakup", "break up", "left me", "dumped", "ended things",
          "relationship ended", "girlfriend left", "boyfriend left", "ex girlfriend",
          "ex boyfriend", "we're done", "she left", "he left"}],
     [label |-> "family_issue", pattern |-> {"parents", "mom", "dad", "family", "sibling", "brother", "sister", "fight with",
          "argument with family"}],
     [label |-> "academic_stress", pattern |-> {"exam", "test", "assignment", "project", "grade", "marks", "fail", "study",
          "course", "professor", "teacher"}],
     [label |-> "job_stress", pattern |-> {"job", "work", "boss", "colleague", "interview", "fired", "quit", "promotion",
          "salary", "career"}],
     [label |-> "health", pattern |-> {"sick", "ill", "health", "doctor", "hospital", "pain", "disease", "diagnosis"}],
     [label |-> "financial", pattern |-> {"money", "broke", "debt", "loan", "bills", "afford", "financial", "income",
          "expense"}] >>

DefaultIntensity == 10

NEGATIVE_PRIORITY ==
  << "sad", "angry", "anxious", "lonely", "guilty", "hurt", "scared",
     "disappointed", "overwhelmed", "hopeless", "insecure", "numb" >>

(***************************************************************************)
(* Detector                                                                *)
(***************************************************************************)
safe_lower(text) == strip(lower(text))

\* the first element of the sequence s that satisfies Test, or dflt
FirstIndex(s, Test(_)) ==
  IF \E i \in 1..Len(s) : Test(s[i])
  THEN CHOOSE i \in 1..Len(s) : Test(s[i]) /\ \A j \in 1..(i - 1) : ~Test(s[j])
  ELSE 0

\* detect_intensity as it would be if the modifier that occurs first in the
\* text were taken: C29 must reject it
detect_intensity_by_position(text_low) ==
  LET Pos(m) == CHOOSE i \in 1..Len(text_low) :
                  /\ SubSeq(text_low, i, i + Len(m) - 1) = m
                  /\ \A j \in 1..(i - 1) : SubSeq(text_low, j, j + Len(m) - 1) # m
      hits == {i \in 1..Len(INTENSITY_MODIFIERS) :
                 Contains(text_low, INTENSITY_MODIFIERS[i].modifier)}
      Earliest(i) == \A j \in hits :
                       \/ Pos(INTENSITY_MODIFIERS[i].modifier) < Pos(INTENSITY_MODIFIERS[j].modifier)
                       \/ /\ Pos(INTENSITY_MODIFIERS[i].modifier) = Pos(INTENSITY_MODIFIERS[j].modifier)
                          /\ i <= j
  IN IF hits = {} THEN DefaultIntensity
     ELSE INTENSITY_MODIFIERS[CHOOSE i \in hits : Earliest(i)].weight

\* the loop over INTENSITY_MODIFIERS.items(): the first modifier that is a
\* substring of the lowered text sets the intensity
detect_intensity(text_low) ==
  LET Hit(m) == Contains(text_low, m.modifier)
      i == FirstIndex(INTENSITY_MODIFIERS, Hit)
  IN IF i = 0 THEN DefaultIntensity ELSE INTENSITY_MODIFIERS[i].weight

\* detected_emotions: the labels whose pattern matches, in lexicon order
detected_emotions(text_low) ==
  LET Hit(i) == re_search_words(EMOTION_PATTERNS[i].pattern, text_low)
  IN SelectSeq([i \in 1..Len(EMOTION_PATTERNS) |-> i], Hit)

\* select_emotion as it would be without the pass over the negative list: C7
\* must reject it
select_first_detected(detected) == EMOTION_PATTERNS[detected[1]].label

\* the choice among the detected emotions: the first label of the negative
\* list that was detected, else the first detected label
select_emotion(detected) ==
  LET labels == [k \in 1..Len(detected) |-> EMOTION_PATTERNS[detected[k]].label]
      InDetected(emo) == \E k \in 1..Len(labels) : labels[k] = emo
      n == FirstIndex(NEGATIVE_PRIORITY, InDetected)
  IN IF n # 0 THEN NEGATIVE_PRIORITY[n] ELSE labels[1]

detect_emotion_with_intensity(text) ==
  LET text_low == safe_lower(text)
      intensity == detect_intensity(text_low)
      detected == detected_emotions(text_low)
  IN IF detected # << >>
     THEN [emotion |-> select_emotion(detected), intensity |-> intensity]
     ELSE [emotion |-> None, intensity |-> DefaultIntensity]

detect_context(text) ==
  LET text_low == safe_lower(text)
      Hit(c) == re_search_words(c.pattern, text_low)
      i == FirstIndex(CONTEXT_PATTERNS, Hit)
  IN IF i = 0 THEN None ELSE CONTEXT_PATTERNS[i].label

check_priority_regex(text) ==
  LET t == safe_lower(text)
      Hit(p) == re_search_words(p.pattern, t)
      i == FirstIndex(PRIORITY_INTENTS, Hit)
  IN IF i = 0 THEN None ELSE PRIORITY_INTENTS[i].label

HEURISTIC_INTENTS ==
  << [label |-> "exam", pattern |-> {"exam", "test", "quiz", "midterm", "final"}],
     [label |-> "study", pattern |-> {"study", "studying", "learn", "revision"}],
     [label |-> "job", pattern |-> {"job", "interview", "career", "resume"}] >>

\* predict_intent as it would be if the keyword groups were tried before the
\* priority intents: C30 must reject it
predict_intent_keywords_first(text) ==
  LET pr == check_priority_regex(text)
      t == safe_lower(text)
      Hit(h) == re_search(h.pattern, t)
      i == FirstIndex(HEURISTIC_INTENTS, Hit)
  IN IF i # 0 THEN HEURISTIC_INTENTS[i].label
     ELSE IF pr # None THEN pr
     ELSE "general"

predict_intent(text) ==
  LET pr == check_priority_regex(text)
      t == safe_lower(text)
      Hit(h) == re_search(h.pattern, t)
      i == FirstIndex(HEURISTIC_INTENTS, Hit)
  IN IF pr # None THEN pr
     ELSE IF i # 0 THEN HEURISTIC_INTENTS[i].label
     ELSE "general"

NAME_BLOCKLIST ==
  {"feeling", "sad", "happy", "angry", "good", "bad", "fine", "okay", "well",
   "great", "terrible", "stressed", "tired", "confused", "lost", "studying",
   "working", "learning", "thinking", "going", "doing", "lonely", "excited",
   "proud", "hurt", "scared", "anxious", "guilty"}

\* the literal part of each introduction pattern; each is followed by the
\* group ([A-Za-z]{1,15})
NAME_PATTERNS == << "my name is ", "i am ", "i'm ", "call me ", "this is " >>

MaxNameLen == 15

\* re.search(p ([A-Za-z]{1,15}), text, re.IGNORECASE).group(1): the leftmost
\* place where p is followed by a letter, and the letters that follow it, at
\* most 15 of them; None when there is no such place
name_capture(p, text) ==
  LET low == lower(text)
      At(i) == /\ i + Len(p) <= Len(text)
               /\ SubSeq(low, i, i + Len(p) - 1) = p
               /\ IsLetter(CharAt(text, i + Len(p)))
      Places == {i \in 1..Len(text) : At(i)}
  IN IF Places = {} THEN None
     ELSE LET i == CHOOSE x \in Places : \A y \in Places : x <= y
              start == i + Len(p)
              Run(n) == \A k \in start..(start + n - 1) :
                          k <= Len(text) /\ IsLetter(CharAt(text, k))
              n == CHOOSE x \in 1..MaxNameLen :
                     Run(x) /\ \A y \in 1..MaxNameLen : Run(y) => y <= x
          IN SubSeq(text, start, start + n - 1)

\* the loop over the five patterns: the first capture that is not blocklisted
simple_name_extractor(text) ==
  LET Accepted(p) ==
        LET c == name_capture(p, text)
        IN c # None /\ lower(title(strip(c))) \notin NAME_BLOCKLIST
      i == FirstIndex(NAME_PATTERNS, Accepted)
  IN IF i = 0 THEN None ELSE title(strip(name_capture(NAME_PATTERNS[i], text)))

(***************************************************************************)
(* Memory                                                                  *)
(***************************************************************************)
Min(a, b) == IF a <= b THEN a ELSE b

Max(a, b) == IF a >= b THEN a ELSE b

EmotionLabels == {EMOTION_PATTERNS[i].label : i \in 1..Len(EMOTION_PATTERNS)}

\* self.memory as AdvancedBot.__init__ builds it
DefaultMemory ==
  [username |-> None,
   last_topic |-> None,
   mood_score |-> 0,
   mood_history |-> << >>,
   emotion_history |-> << >>,
   conversation_context |-> << >>,
   turn_count |-> 0,
   awaiting_response |-> None,
   last_emotion |-> None,
   last_emotion_intensity |-> DefaultIntensity,
   relationship_level |-> 0]

BotName == "J.A.R.V.I.S."

MOOD_NEGATIVE_EMOTIONS ==
  {"sad", "angry", "anxious", "lonely", "guilty", "hurt", "scared",
   "disappointed", "overwhelmed", "hopeless", "insecure"}

MOOD_POSITIVE_EMOTIONS ==
  {"happy", "excited", "proud", "grateful", "relieved", "loved", "hopeful", "confident"}

MaxEmotionHistory == 20

MaxConversationContext == 10

(***************************************************************************)
(* Reply templates                                                        *)
(***************************************************************************)
\* the result of a branch that returns: the memory it leaves, the label of the
\* branch and the replies random.choice may pick
Out(mem, label, responses) == [memory |-> mem, branch |-> label, responses |-> responses]

\* the result of a branch that does not return
NoReply == [memory |-> DefaultMemory, branch |-> None, responses |-> << >>]

\* raise_relationship as it would be without the min(10, ...): C10 must reject it
raise_relationship_uncapped(mem, n) ==
  [mem EXCEPT !.relationship_level = @ + n]

\* self.memory["relationship_level"] = min(10, self.memory["relationship_level"] + n)
raise_relationship(mem, n) ==
  [mem EXCEPT !.relationship_level = Min(10, @ + n)]

\* lift_mood as it would be without the min(10, ...): C3 must reject it
lift_mood_uncapped(mem, n) ==
  [mem EXCEPT !.mood_score = @ + n]

\* self.memory["mood_score"] = min(10, self.memory["mood_score"] + n)
lift_mood(mem, n) ==
  [mem EXCEPT !.mood_score = Min(10, @ + n)]

LISTENING_PROMPT == "I'm listening... what would you like to talk about?"

\* InteractiveContent.generate_breathing_exercise: random.choice of these
generate_breathing_exercise ==
  << "**Box Breathing (4-4-4-4)**\n\nLet's do this together:\nv Breathe IN -> 1...2...3...4\nv HOLD -> 1...2...3...4\nv Breathe OUT -> 1...2...3...4\nv HOLD -> 1...2...3...4\n\nRepeat 4 times. Ready? Start now!\nTell me how you feel after!",
     "**4-7-8 Calming Breath**\n\nThis activates your relaxation response:\nv IN through nose -> 4 seconds\nv HOLD -> 7 seconds\nv OUT through mouth -> 8 seconds\n\nDo this 3 times. I'll wait...\nHow do you feel now?",
     "**Simple Deep Breathing**\n\nLet's ground you:\nv Take a slow, deep breath in -> 5 seconds\nv Hold it gently -> 2 seconds\nv Release slowly -> 5 seconds\n\nRepeat 5 times. Focus only on your breath.\nReady? Start..." >>

generate_grounding_exercise ==
  "**5-4-3-2-1 Grounding Technique**\n\nThis brings you back to the present:\n\nName out loud:\nv **5 things** you can SEE around you\nv **4 things** you can TOUCH\nv **3 things** you can HEAR\nv **2 things** you can SMELL\nv **1 thing** you can TASTE\n\nTake your time. Tell me when you're done!"

\* InteractiveContent.generate_support_tips: tips.get(emotion, default)
generate_support_tips(emotion) ==
  CASE emotion = "sad" ->
         "**When feeling sad:**\n- Allow yourself to feel it - it's okay to be sad\n- Talk to someone you trust\n- Do one small thing you enjoy\n- Get outside for 10 minutes\n- Journal - write how you feel\n- Listen to music that comforts you\n\nRemember: This feeling is temporary. You're not alone."
    [] emotion = "anxious" ->
         "**Managing anxiety:**\n- Ground yourself -> 5-4-3-2-1 technique\n- Deep breathing exercises\n- Move your body -> walk, stretch, dance\n- Limit caffeine/sugar\n- Write down what's worrying you\n- Talk to someone\n\nSay \"breathe\" for a guided exercise or \"ground\" for grounding!"
    [] emotion = "angry" ->
         "**Cooling down anger:**\n- Take a 5-minute break from the situation\n- Count to 10 (or 100!) slowly\n- Physical release -> push-ups, punching pillow\n- Write an angry letter (don't send it)\n- Talk it out when calmer\n- Ask: \"Will this matter in 5 years?\"\n\nYour anger is valid. Let's work through it together."
    [] emotion = "lonely" ->
         "**When feeling lonely:**\n- Reach out to one person -> text, call\n- Join an online community -> hobby, interest\n- Go somewhere public -> cafe, park\n- Volunteer or help someone\n- Connect with yourself -> journal, self-care\n\nRemember: being alone != being lonely.\nI'm here with you right now. You're not alone."
    [] emotion = "overwhelmed" ->
         "**When overwhelmed:**\n1. STOP. Take 3 deep breaths\n2. Write EVERYTHING down\n3. Pick ONE thing. Just one.\n4. Do that one thing\n5. Take a break\n6. Repeat\n\nYou don't have to do it all at once. One step at a time.\n\nWhat's the ONE thing you can do right now?"
    [] emotion = "hopeless" ->
         "**Feeling hopeless is so hard.**\n\nPlease talk to someone NOW -> friend, family, counselor\n\nThese feelings are TEMPORARY (even if they don't feel like it)\n\nDo ONE tiny thing for yourself today\n\nRemember: you've survived 100% of your worst days so far\n\nCall a helpline if you need immediate support:\nIN India: 9152987821 (iCALL)\n\nYou matter. Your life matters. I'm here."
    [] emotion = "tired" ->
         "**Dealing with exhaustion:**\n- It's okay to rest - you're not lazy\n- Take a 10-20 min power nap\n- Move your body -> even 5 min walk\n- Hydrate + eat something nutritious\n- Say NO to one thing today\n- Go to bed 30 min earlier tonight\n\nRest is productive. You deserve it."
    [] emotion = "guilty" ->
         "**Managing guilt:**\n- Ask: \"Did I intend harm?\" (Usually no)\n- Apologize if you hurt someone\n- Forgive yourself - everyone makes mistakes\n- Learn the lesson\n- Make amends if possible\n- Let it go - don't carry it forever\n\nYou're human. Mistakes don't define you."
    [] emotion = "proud" ->
         "**CELEBRATE YOUR WIN!**\nv Tell someone about it!\nv Write down what you did well\nv Give yourself credit - you earned it\nv Do something nice for yourself\nv Remember this moment for tough days\n\nYou should be proud. This is awesome!"
    [] OTHER ->
         "I'm here to support you. Tell me more about what you're feeling."

\* InteractiveContent.generate_affirmation: random.choice of the emotion's list
generate_affirmation(emotion) ==
  CASE emotion = "sad" ->
         << "It's okay to not be okay right now. This feeling will pass.",
            "Your sadness is valid. You don't have to force positivity.",
            "Even in darkness, you are still here. That takes strength." >>
    [] emotion = "anxious" ->
         << "You've survived every anxious moment before this. You'll survive this too.",
            "Anxiety lies. You are more capable than your worry says.",
            "One breath at a time. You've got this." >>
    [] emotion = "lonely" ->
         << "Being alone doesn't mean you're unworthy of connection.",
            "You matter, even when you can't feel it.",
            "This loneliness is temporary. Connection is still possible." >>
    [] emotion = "overwhelmed" ->
         << "You don't have to do it all. One step is enough.",
            "It's okay to ask for help. It's actually brave.",
            "You're doing the best you can with what you have." >>
    [] emotion = "insecure" ->
         << "You are enough, exactly as you are.",
            "Your worth isn't determined by what you achieve.",
            "Everyone feels this way sometimes. You're not broken." >>
    [] emotion = "tired" ->
         << "Rest is not giving up. It's refueling.",
            "You're allowed to be tired without feeling guilty.",
            "Taking care of yourself is NOT selfish." >>
    [] OTHER ->
         << "You're doing great. Keep going." >>

\* the reply of the self-harm branch
CRISIS_MESSAGE ==
  "I'm deeply concerned about you. Your safety is THE most important thing.\n\nPlease reach out NOW:\nIN iCALL: 9152987821 (call/WhatsApp, 24/7)\nIN Local emergency: 112 or go to nearest hospital\n<3 Tell someone you trust immediately\n\nThese feelings are overwhelming but they're NOT permanent. You deserve help and support.\n\nI'm here too. Can you tell me what's happening?"

\* the context branches, in their order; NoReply when none fires
context_branch(mem, emotion, context, name_prefix, intensity_prefix) ==
  CASE context = "breakup" ->
         LET breakup_name == rstrip(name_prefix, {",", " "})
         IN Out(mem, "breakup",
             << "Breakups cut deep, especially when it's someone you really cared about. " \o name_prefix \o "What hurts the most right now?" \o "\n\n<3 *Say 'tips' for healing strategies or 'breathe' to calm down.*",
                "That sounds incredibly painful. When someone we love walks away, it feels like the ground's been pulled from under us. " \o name_prefix \o "Do you want to tell me what happened?" \o "\n\n<3 *Say 'tips' for healing strategies or 'breathe' to calm down.*",
                "I hear you. Losing a relationship can feel devastating. " \o name_prefix \o "How are you holding up? What's going through your mind?" \o "\n\n<3 *Say 'tips' for healing strategies or 'breathe' to calm down.*",
                intensity_prefix \o "the pain of the breakup. It's one of the hardest things to go through. You don't have to be strong right now - it's okay to hurt. Want to talk about it?" \o "\n\n<3 *Say 'tips' for healing strategies or 'breathe' to calm down.*",
                "When someone leaves, it's normal to feel shattered. " \o name_prefix \o "I'm here. Do you want to talk about how it ended, or just how you're feeling?" \o "\n\n<3 *Say 'tips' for healing strategies or 'breathe' to calm down.*" >>)
    [] context = "family_issue" /\ emotion \in {"angry", "hurt", "sad"} ->
         Out(mem, "family_issue",
             << "Family conflicts hit different - they're so personal. " \o name_prefix \o "What happened? I'm listening.",
                "Arguments with family can be especially painful because we care so much. " \o name_prefix \o "Want to talk about what's going on?",
                intensity_prefix \o "the tension with your family. That's exhausting. What happened?" >>)
    [] context = "academic_stress" /\ emotion \in {"anxious", "overwhelmed", "scared"} ->
         Out(mem, "academic_stress",
             << "Academic pressure can be crushing. " \o name_prefix \o "What's got you stressed? Maybe we can break it down together.",
                intensity_prefix \o "the exam anxiety. That racing mind before a test is rough. When's the exam? How are you preparing?",
                "School stress is no joke. " \o name_prefix \o "Tell me what's overwhelming you - assignments, exams, grades? Let's tackle it." >>)
    [] context = "job_stress" /\ emotion \in {"anxious", "overwhelmed", "angry", "insecure"} ->
         Out(mem, "job_stress",
             << "Work stress can bleed into everything. " \o name_prefix \o "What's happening at your job? Tell me more.",
                intensity_prefix \o "the pressure from work. That can be draining. What's going on?",
                "Job stuff is tough - it affects so much of our lives. " \o name_prefix \o "Want to vent about what's bothering you?" >>)
    [] OTHER -> NoReply

\* floor_mood as it would be without the assignment: C22 must reject it
floor_mood_unset(mem) == mem

\* self.memory["mood_score"] = -10
floor_mood(mem) == [mem EXCEPT !.mood_score = -10]

\* the if/elif chain over the emotion labels; NoReply when no case applies
emotion_branch(mem, emotion, name_prefix, name_suffix, intensity_prefix) ==
  CASE emotion = "sad" ->
         Out(mem, "sad",
             << intensity_prefix \o "you're feeling sad" \o name_suffix \o ". That's really tough. What's weighing on you? I'm here." \o "\n\n<3 *Say 'tips' for coping strategies, 'breathe' for calming, or 'affirmation' for support.*",
                intensity_prefix \o "the sadness in your words. Want to talk about what happened? Sometimes it helps." \o "\n\n<3 *Say 'tips' for coping strategies, 'breathe' for calming, or 'affirmation' for support.*",
                "I'm sorry you're going through this" \o name_suffix \o ". Sadness is hard. What's making you feel this way?" \o "\n\n<3 *Say 'tips' for coping strategies, 'breathe' for calming, or 'affirmation' for support.*",
                "It's okay to not be okay. " \o name_prefix \o "Tell me what's on your heart." \o "\n\n<3 *Say 'tips' for coping strategies, 'breathe' for calming, or 'affirmation' for support.*" >>)
    [] emotion = "anxious" ->
         Out(mem, "anxious",
             << intensity_prefix \o "the anxiety" \o name_suffix \o ". That's really uncomfortable. What's making you feel anxious right now?" \o "\n\n<3 *Try 'breathe' for exercise, 'ground' for grounding, or 'tips' for strategies.*",
                "Anxiety is tough to sit with. " \o name_prefix \o "I'm here. Want to talk about what's worrying you?" \o "\n\n<3 *Try 'breathe' for exercise, 'ground' for grounding, or 'tips' for strategies.*",
                intensity_prefix \o "you're feeling on edge. That's exhausting. What's going through your mind?" \o "\n\n<3 *Try 'breathe' for exercise, 'ground' for grounding, or 'tips' for strategies.*",
                "Racing thoughts? Tight chest? Anxiety's the worst. " \o name_prefix \o "Talk to me - what's triggering this?" \o "\n\n<3 *Try 'breathe' for exercise, 'ground' for grounding, or 'tips' for strategies.*" >>)
    [] emotion = "angry" ->
         Out(mem, "angry",
             << intensity_prefix \o "you're angry" \o name_suffix \o ". That's valid - anger tells us something matters. What happened?" \o "\n\n<3 *Say 'tips' for anger management, or just keep talking - I'm listening.*",
                "I hear the frustration. It's okay to be mad. " \o name_prefix \o "Want to vent about what's pissing you off?" \o "\n\n<3 *Say 'tips' for anger management, or just keep talking - I'm listening.*",
                intensity_prefix \o "the anger in your words. You have every right to feel this way. What's going on?" \o "\n\n<3 *Say 'tips' for anger management, or just keep talking - I'm listening.*",
                "Sometimes we just need to let it out. " \o name_prefix \o "I'm listening - tell me what happened." \o "\n\n<3 *Say 'tips' for anger management, or just keep talking - I'm listening.*" >>)
    [] emotion = "lonely" ->
         Out(mem, "lonely",
             << intensity_prefix \o "you're feeling lonely" \o name_suffix \o ". That's one of the hardest feelings. You're not alone right now - I'm here. What's making you feel this way?" \o "\n\n<3 *Say 'tips' for connection ideas, or just chat - I'm here for you.*",
                "Loneliness is so painful. " \o name_prefix \o "I'm with you. Want to talk about it?" \o "\n\n<3 *Say 'tips' for connection ideas, or just chat - I'm here for you.*",
                "I hear you. Feeling alone is heavy" \o name_suffix \o ". Tell me more." \o "\n\n<3 *Say 'tips' for connection ideas, or just chat - I'm here for you.*",
                "Being lonely doesn't mean you're unlovable - it just means you're human. " \o name_prefix \o "I'm here. Talk to me." \o "\n\n<3 *Say 'tips' for connection ideas, or just chat - I'm here for you.*" >>)
    [] emotion = "overwhelmed" ->
         Out(mem, "overwhelmed",
             << intensity_prefix \o "you're overwhelmed" \o name_suffix \o ". That's a lot to carry. Let's break it down - what's the biggest thing on your mind?" \o "\n\n<3 *Say 'tips' for overwhelm strategies.*",
                "Feeling overwhelmed is exhausting. " \o name_prefix \o "I'm here. What's making you feel buried?" \o "\n\n<3 *Say 'tips' for overwhelm strategies.*",
                "Too much at once can be suffocating. " \o name_prefix \o "Let's tackle this together - what's one thing stressing you most?" \o "\n\n<3 *Say 'tips' for overwhelm strategies.*",
                "When everything piles up, it's hard to breathe. " \o name_prefix \o "Talk to me - what's overwhelming you?" \o "\n\n<3 *Say 'tips' for overwhelm strategies.*" >>)
    [] emotion = "hopeless" ->
         Out(floor_mood(mem), "hopeless",
             << intensity_prefix \o "you're feeling hopeless" \o name_suffix \o ". I'm really concerned. That's such a heavy feeling.\n\nPlease reach out to someone right now:\n* A friend or family member\n* A counselor or therapist\n* iCALL: 9152987821 (call/WhatsApp)\n* Local crisis helpline\n\nThese feelings are real but they're NOT the truth. You matter. Your life matters. I'm here too.\n\nWhat's making you feel this way? Let's talk." >>)
    [] emotion = "guilty" ->
         Out(mem, "guilty",
             << intensity_prefix \o "you're carrying guilt" \o name_suffix \o ". That's a heavy burden. What happened that's making you feel this way?" \o "\n\n<3 *Say 'tips' for managing guilt, or 'affirmation' for support.*",
                "Guilt can be so consuming. " \o name_prefix \o "Want to talk about what you're feeling bad about? I won't judge." \o "\n\n<3 *Say 'tips' for managing guilt, or 'affirmation' for support.*",
                "I hear the guilt. You're being hard on yourself. " \o name_prefix \o "What's going on?" \o "\n\n<3 *Say 'tips' for managing guilt, or 'affirmation' for support.*" >>)
    [] emotion = "jealous" ->
         Out(mem, "jealous",
             << intensity_prefix \o "you're feeling jealous. That's honest and real. " \o name_prefix \o "What's making you feel this way?" \o "\n\n<3 Sometimes jealousy shows us what we want. Let's explore that.",
                "Jealousy is uncomfortable but it's human. " \o name_prefix \o "Want to talk about what's triggering this?" \o "\n\n<3 Sometimes jealousy shows us what we want. Let's explore that.",
                "I hear you. Comparison can be painful. What's going on?" \o "\n\n<3 Sometimes jealousy shows us what we want. Let's explore that." >>)
    [] emotion = "disappointed" ->
         Out(mem, "disappointed",
             << intensity_prefix \o "you're disappointed. That stings. " \o name_prefix \o "What didn't go the way you hoped?",
                "Disappointment hurts" \o name_suffix \o ". I'm sorry. What happened?",
                "I hear the letdown. That's tough. Want to talk about it?" >>)
    [] emotion = "hurt" ->
         Out(mem, "hurt",
             << intensity_prefix \o "you're hurt. That's painful, especially when it comes from someone you care about. " \o name_prefix \o "What happened?",
                "Feeling hurt is one of the deepest pains. " \o name_prefix \o "I'm here. Who or what hurt you?",
                "I'm sorry you're feeling hurt. That's real pain. Want to talk about it?" >>)
    [] emotion = "scared" ->
         Out(mem, "scared",
             << intensity_prefix \o "you're scared. Fear is so uncomfortable. " \o name_prefix \o "What's frightening you?" \o "\n\n<3 *Say 'breathe' for calming, or 'ground' to feel present.*",
                "I hear the fear. That's a real feeling. Want to talk about what's scaring you?" \o "\n\n<3 *Say 'breathe' for calming, or 'ground' to feel present.*",
                "Being scared is hard. " \o name_prefix \o "You're safe talking to me. What's going on?" \o "\n\n<3 *Say 'breathe' for calming, or 'ground' to feel present.*" >>)
    [] emotion = "confused" ->
         Out(mem, "confused",
             << intensity_prefix \o "you're confused. That's disorienting. " \o name_prefix \o "What's unclear? Maybe talking it through will help.",
                "Confusion is uncomfortable. Let's untangle this together - what's puzzling you?",
                "I hear the confusion. Sometimes talking helps clarify. What's on your mind?" >>)
    [] emotion = "tired" ->
         Out(mem, "tired",
             << intensity_prefix \o "you're exhausted. That's draining. " \o name_prefix \o "What's wearing you out?" \o "\n\n<3 *Say 'tips' for energy restoration.*",
                "Being tired - physically or emotionally - is real. What's taking your energy?" \o "\n\n<3 *Say 'tips' for energy restoration.*",
                "I hear you're drained. Burnout is no joke. What's going on?" \o "\n\n<3 *Say 'tips' for energy restoration.*" >>)
    [] emotion = "insecure" ->
         Out(mem, "insecure",
             << intensity_prefix \o "you're feeling insecure. Those thoughts can be so loud. " \o name_prefix \o "What's making you doubt yourself?" \o "\n\n<3 *Say 'affirmation' for a reminder of your worth.*",
                "Insecurity is painful. You're not alone in feeling this. What's triggering it?" \o "\n\n<3 *Say 'affirmation' for a reminder of your worth.*",
                "I hear the self-doubt. That's hard. Want to talk about what's making you feel not good enough?" \o "\n\n<3 *Say 'affirmation' for a reminder of your worth.*" >>)
    [] emotion = "numb" ->
         Out(mem, "numb",
             << intensity_prefix \o "you're feeling numb or empty. That disconnection is real. " \o name_prefix \o "What's going on?",
                "Emotional numbness can be a sign you're overwhelmed. I'm here. What happened?",
                "Feeling nothing can be scarier than feeling pain. Want to talk about what led to this?" >>)
    [] emotion = "happy" ->
         Out(raise_relationship(mem, 1), "happy",
             << intensity_prefix \o "you're happy! That's wonderful! " \o name_prefix \o "What's bringing you joy?",
                "I love hearing this! What's making you feel good?",
                "Yes! Happiness looks good on you! Tell me what happened!" >>)
    [] emotion = "excited" ->
         Out(raise_relationship(mem, 1), "excited",
             << intensity_prefix \o "you're excited! I can feel the energy! " \o name_prefix \o "What's happening?!",
                "That excitement is contagious! Tell me everything!",
                "Yes! What are you pumped about?!" >>)
    [] emotion = "proud" ->
         Out(raise_relationship(mem, 1), "proud",
             << intensity_prefix \o "you're proud - and you SHOULD be! " \o name_prefix \o "What did you accomplish?" \o "\n\n<3 *Say 'tips' to make sure you really celebrate this win!*",
                "Hell yes! Tell me what you achieved! You deserve to celebrate!" \o "\n\n<3 *Say 'tips' to make sure you really celebrate this win!*",
                "That's amazing! I'm proud of you too! What happened?" \o "\n\n<3 *Say 'tips' to make sure you really celebrate this win!*" >>)
    [] emotion = "grateful" ->
         Out(raise_relationship(mem, 1), "grateful",
             << intensity_prefix \o "gratitude in your words. That's beautiful. " \o name_prefix \o "What are you thankful for?",
                "Gratitude is powerful. What's making you feel blessed?",
                "I love this energy. What happened that you're grateful for?" >>)
    [] emotion = "relieved" ->
         Out(mem, "relieved",
             << intensity_prefix \o "you're relieved! That must feel like a weight lifted. " \o name_prefix \o "What resolved?",
                "Phew! Relief is such a good feeling. What's finally over?",
                "I can feel the exhale. What were you worried about that's now okay?" >>)
    [] emotion = "loved" ->
         Out(raise_relationship(mem, 2), "loved",
             << intensity_prefix \o "you're feeling loved and appreciated! That's so heartwarming! " \o name_prefix \o "Who's making you feel this way?",
                "Being loved and valued is everything. Tell me more!",
                "That's beautiful. Feeling cherished is so important. What happened?" >>)
    [] emotion = "hopeful" ->
         Out(lift_mood(mem, 2), "hopeful",
             << intensity_prefix \o "you're feeling hopeful! That's such a positive shift! " \o name_prefix \o "What's giving you hope?",
                "Hope is powerful. I'm glad you're feeling this way. What changed?",
                "Yes! Optimism looks good on you! What are you hopeful about?" >>)
    [] emotion = "confident" ->
         Out(lift_mood(mem, 2), "confident",
             << intensity_prefix \o "you're feeling confident! That's amazing! " \o name_prefix \o "What's giving you this boost?",
                "Yes! That confidence is showing! What are you ready for?",
                "I love this energy! What's making you feel self-assured?" >>)
    [] emotion = "bored" ->
         Out(mem, "bored",
             << intensity_prefix \o "you're bored. That restlessness is real. " \o name_prefix \o "What would make things more interesting for you?",
                "Boredom can be uncomfortable. Want suggestions for something to do, or just need to vent?",
                "I hear you. Nothing capturing your interest? What usually excites you?" >>)
    [] emotion = "nostalgic" ->
         Out(mem, "nostalgic",
             << intensity_prefix \o "you're feeling nostalgic. Memories can be bittersweet. " \o name_prefix \o "What are you remembering?",
                "Nostalgia is that mix of happiness and longing. What's on your mind from the past?",
                "I hear you looking back. What memory came up?" >>)
    [] emotion = "curious" ->
         Out(mem, "curious",
             << intensity_prefix \o "you're curious! I love that! " \o name_prefix \o "What do you want to know?",
                "Curiosity is great! What's got you wondering?",
                "I'm intrigued! What question is on your mind?" >>)
    [] OTHER -> NoReply

\* the intent branches, in their order; NoReply when none fires
intent_branch(mem, intent, name_prefix) ==
  CASE intent = "greeting" ->
         LET greeting_name == rstrip(name_prefix, {",", " "})
         IN Out(mem, "greeting",
             IF mem.relationship_level >= 5
             THEN << "Hey " \o greeting_name \o "! Good to see you again! How are you feeling today?",
                    "Hi " \o greeting_name \o "! Welcome back! What's going on with you?" >>
             ELSE << "Hey " \o greeting_name \o "! How are you doing?",
                    "Hi " \o greeting_name \o "! What's on your mind today?" >>)
    [] intent = "bye" ->
         LET bye_name == rstrip(name_prefix, {",", " "})
         IN Out(raise_relationship(mem, 1), "bye",
             << "Take care of yourself" \o (IF bye_name # "" THEN ", " \o bye_name ELSE "") \o "! I'm here whenever you need me.",
                "Goodbye" \o (IF bye_name # "" THEN " " \o bye_name ELSE "") \o "! Remember - you've got this. Come back anytime.",
                "See you later! Be kind to yourself today." >>)
    [] intent = "thanks" ->
         LET thanks_name == rstrip(name_prefix, {",", " "})
         IN Out(raise_relationship(mem, 1), "thanks",
             << "You're so welcome" \o (IF thanks_name # "" THEN " " \o thanks_name ELSE "") \o "! Anything else I can help with?",
                "Happy to help" \o (IF thanks_name # "" THEN " " \o thanks_name ELSE "") \o "! That's what I'm here for.",
                "Anytime! Need anything else?" >>)
    [] intent = "exam" ->
         Out([mem EXCEPT !.last_topic = "exam"], "exam",
             << name_prefix \o "Exams can be stressful! Which subject or test are you preparing for? I can help with study plans, techniques, or just moral support." >>)
    [] intent = "study" ->
         Out([mem EXCEPT !.last_topic = "study"], "study",
             << name_prefix \o "Nice! What topic are you studying? I can:\n* Create a study plan\n* Quiz you\n* Share techniques (Pomodoro, active recall)\n\nWhat would help?" >>)
    [] intent = "job" ->
         Out([mem EXCEPT !.last_topic = "job"], "job",
             << name_prefix \o "Career stuff! What do you need?\n* Interview prep?\n* Resume help?\n* Career exploration?\n\nLet me know!" >>)
    [] OTHER -> NoReply

FALLBACKS(name_prefix) ==
  << name_prefix \o "I'm listening. Tell me more?",
     name_prefix \o "Interesting. What else is on your mind?",
     "I'm here. Keep going - what happened next?",
     "I hear you. How does that make you feel?",
     "That's important to you. Tell me more about that.",
     "Go on. I'm with you. What are you thinking?",
     name_prefix \o "That sounds significant. Want to explore that more?" >>

STRUGGLING_MESSAGE ==
  "I'm noticing you've been going through a tough time. Have you considered talking to someone you trust or a professional? You don't have to carry this alone."

VOLATILITY_MESSAGE ==
  "I'm noticing your emotions have been shifting quite a bit. That can be exhausting. Want to talk about what's causing these ups and downs?"
(***************************************************************************)
(* Mood engine                                                             *)
(***************************************************************************)
\* mood_step as it would be with round() in place of int(): C9 must reject it
mood_step_rounded(intensity) == (3 * intensity + 5) \div 10

\* int(3 * intensity), the intensity in tenths
mood_step(intensity) == (3 * intensity) \div 10

\* adjusted_mood as it would be if the sentiment label were also applied to the
\* emotions of neither list: C23 must reject it
adjusted_mood_labelled(score, sentiment_label, emotion, intensity) ==
  IF emotion \in MOOD_NEGATIVE_EMOTIONS THEN Max(-10, score - mood_step(intensity))
  ELSE IF emotion \in MOOD_POSITIVE_EMOTIONS THEN Min(10, score + mood_step(intensity))
  ELSE IF sentiment_label = "Positive" THEN Min(10, score + 1)
  ELSE IF sentiment_label = "Negative" THEN Max(-10, score - 1)
  ELSE score

\* the mood score after update_mood's adjustment
adjusted_mood(score, sentiment_label, emotion, intensity) ==
  IF emotion # None
  THEN IF emotion \in MOOD_NEGATIVE_EMOTIONS THEN Max(-10, score - mood_step(intensity))
       ELSE IF emotion \in MOOD_POSITIVE_EMOTIONS THEN Min(10, score + mood_step(intensity))
       ELSE score
  ELSE IF sentiment_label # None
  THEN IF sentiment_label = "Positive" THEN Min(10, score + 1)
       ELSE IF sentiment_label = "Negative" THEN Max(-10, score - 1)
       ELSE score
  ELSE score

\* append_capped as it would be without the pop(0): C5 must reject it
append_uncapped(list, entry, cap) == Append(list, entry)

\* list.append(entry) followed by pop(0) when the list is longer than cap
append_capped(list, entry, cap) ==
  LET appended == Append(list, entry)
  IN IF Len(appended) > cap THEN Tail(appended) ELSE appended

\* update_mood as it would be without the append to emotion_history: C13 must
\* reject it
update_mood_unrecorded(mem, sentiment_label, emotion, intensity, timestamp) ==
  [mem EXCEPT !.mood_score = adjusted_mood(@, sentiment_label, emotion, intensity)]

\* update_mood: the score adjusted, the turn appended to emotion_history
update_mood(mem, sentiment_label, emotion, intensity, timestamp) ==
  LET score == adjusted_mood(mem.mood_score, sentiment_label, emotion, intensity)
      entry == [timestamp |-> timestamp,
                emotion |-> emotion,
                intensity |-> intensity,
                mood_score |-> score,
                sentiment |-> sentiment_label]
  IN [mem EXCEPT !.mood_score = score,
                 !.emotion_history = append_capped(@, entry, MaxEmotionHistory)]

\* get_mood_state as it would be with strict comparisons: C32 must reject it
get_mood_state_strict(mem) ==
  LET score == mem.mood_score
  IN IF score > 7 THEN "very_positive"
     ELSE IF score > 3 THEN "positive"
     ELSE IF score > -2 THEN "neutral"
     ELSE IF score > -6 THEN "negative"
     ELSE "very_negative"

get_mood_state(mem) ==
  LET score == mem.mood_score
  IN IF score >= 7 THEN "very_positive"
     ELSE IF score >= 3 THEN "positive"
     ELSE IF score >= -2 THEN "neutral"
     ELSE IF score >= -6 THEN "negative"
     ELSE "very_negative"

INSIGHT_NEGATIVE == {"sad", "anxious", "lonely", "overwhelmed", "hopeless"}

\* LastFive as it would be if the whole history were looked at: C27 must
\* reject it
LastAll(list) == list

\* emotion_history[-5:]
LastFive(list) == SubSeq(list, Max(1, Len(list) - 4), Len(list))

get_emotional_insight(mem) ==
  IF Len(mem.emotion_history) < 3 THEN None
  ELSE LET last == LastFive(mem.emotion_history)
           IsSet(e) == e.emotion # None
           recent_emotions == SelectSeq(last, IsSet)
           Struggling(e) == e.emotion \in INSIGHT_NEGATIVE
       IN IF Len(SelectSeq(recent_emotions, Struggling)) >= 3 THEN STRUGGLING_MESSAGE
          ELSE IF Cardinality({recent_emotions[i].emotion : i \in 1..Len(recent_emotions)}) >= 4
                  /\ Len(recent_emotions) >= 4
          THEN VOLATILITY_MESSAGE
          ELSE None

(***************************************************************************)
(* Reply dispatcher                                                        *)
(***************************************************************************)
TIPS_TRIGGER == {"tip", "tips", "help", "coping", "strategies", "advice"}

BREATH_TRIGGER == {"breath", "breathing", "calm", "relax"}

GROUND_TRIGGER == {"ground", "grounding", "present"}

AFFIRMATION_TRIGGER == {"affirmation", "remind me", "support", "encouragement"}

\* everything generate_reply derives from the text alone
analyse(ut) ==
  LET d == detect_emotion_with_intensity(ut)
      context == detect_context(ut)
  IN [emotion |-> d.emotion,
      intensity |-> d.intensity,
      context |-> context,
      name |-> IF d.emotion = None /\ context = None
               THEN simple_name_extractor(ut) ELSE None,
      intent |-> predict_intent(ut),
      tips |-> re_search(TIPS_TRIGGER, lower(ut)),
      breath |-> re_search(BREATH_TRIGGER, lower(ut)),
      ground |-> re_search(GROUND_TRIGGER, lower(ut)),
      affirmation |-> re_search(AFFIRMATION_TRIGGER, lower(ut))]

self_harm_branch(mem, intent) ==
  IF intent = "self_harm" THEN Out(mem, "self_harm", << CRISIS_MESSAGE >>) ELSE NoReply

\* insight and random.random() < 0.3; coin is the outcome of the draw
insight_branch(mem, coin) ==
  LET insight == get_emotional_insight(mem)
  IN IF insight # None /\ coin THEN Out(mem, "insight", << insight >>) ELSE NoReply

tool_branch(mem, a) ==
  IF a.tips /\ mem.last_emotion \in EmotionLabels
  THEN Out(mem, "tips", << generate_support_tips(mem.last_emotion) >>)
  ELSE IF a.breath THEN Out(mem, "breathing", generate_breathing_exercise)
  ELSE IF a.ground THEN Out(mem, "grounding", << generate_grounding_exercise >>)
  ELSE IF a.affirmation /\ mem.last_emotion # None
  THEN Out(mem, "affirmation", generate_affirmation(mem.last_emotion))
  ELSE NoReply

fallback_branch(mem, name_prefix) == Out(mem, "fallback", FALLBACKS(name_prefix))

\* dispatch as it would be with the context and emotion branches moved ahead of
\* the self-harm test: C2 must reject it
dispatch_emotion_first(mem, a, name_prefix, name_suffix, intensity_prefix, coin) ==
  LET crisis == self_harm_branch(mem, a.intent)
      by_context == context_branch(mem, a.emotion, a.context, name_prefix, intensity_prefix)
      by_emotion == emotion_branch(mem, a.emotion, name_prefix, name_suffix, intensity_prefix)
      by_intent == intent_branch(mem, a.intent, name_prefix)
      by_insight == insight_branch(mem, coin)
      by_tool == tool_branch(mem, a)
  IN IF by_context.branch # None THEN by_context
     ELSE IF by_emotion.branch # None THEN by_emotion
     ELSE IF crisis.branch # None THEN crisis
     ELSE IF by_intent.branch # None THEN by_intent
     ELSE IF by_insight.branch # None THEN by_insight
     ELSE IF by_tool.branch # None THEN by_tool
     ELSE fallback_branch(mem, name_prefix)

\* dispatch as it would be with the insight interjection moved ahead of the
\* context and emotion branches: C15 must reject it
dispatch_insight_first(mem, a, name_prefix, name_suffix, intensity_prefix, coin) ==
  LET crisis == self_harm_branch(mem, a.intent)
      by_context == context_branch(mem, a.emotion, a.context, name_prefix, intensity_prefix)
      by_emotion == emotion_branch(mem, a.emotion, name_prefix, name_suffix, intensity_prefix)
      by_intent == intent_branch(mem, a.intent, name_prefix)
      by_insight == insight_branch(mem, coin)
      by_tool == tool_branch(mem, a)
  IN IF crisis.branch # None THEN crisis
     ELSE IF by_insight.branch # None THEN by_insight
     ELSE IF by_context.branch # None THEN by_context
     ELSE IF by_emotion.branch # None THEN by_emotion
     ELSE IF by_intent.branch # None THEN by_intent
     ELSE IF by_tool.branch # None THEN by_tool
     ELSE fallback_branch(mem, name_prefix)

\* dispatch as it would be with the intent branches moved ahead of the emotion
\* branches: C20 must reject it
dispatch_intent_first(mem, a, name_prefix, name_suffix, intensity_prefix, coin) ==
  LET crisis == self_harm_branch(mem, a.intent)
      by_context == context_branch(mem, a.emotion, a.context, name_prefix, intensity_prefix)
      by_emotion == emotion_branch(mem, a.emotion, name_prefix, name_suffix, intensity_prefix)
      by_intent == intent_branch(mem, a.intent, name_prefix)
      by_insight == insight_branch(mem, coin)
      by_tool == tool_branch(mem, a)
  IN IF crisis.branch # None THEN crisis
     ELSE IF by_context.branch # None THEN by_context
     ELSE IF by_intent.branch # None THEN by_intent
     ELSE IF by_emotion.branch # None THEN by_emotion
     ELSE IF by_insight.branch # None THEN by_insight
     ELSE IF by_tool.branch # None THEN by_tool
     ELSE fallback_branch(mem, name_prefix)

\* dispatch as it would be with the emotion branches moved ahead of the context
\* branches: C21 must reject it
dispatch_emotion_over_context(mem, a, name_prefix, name_suffix, intensity_prefix, coin) ==
  LET crisis == self_harm_branch(mem, a.intent)
      by_context == context_branch(mem, a.emotion, a.context, name_prefix, intensity_prefix)
      by_emotion == emotion_branch(mem, a.emotion, name_prefix, name_suffix, intensity_prefix)
      by_intent == intent_branch(mem, a.intent, name_prefix)
      by_insight == insight_branch(mem, coin)
      by_tool == tool_branch(mem, a)
  IN IF crisis.branch # None THEN crisis
     ELSE IF by_emotion.branch # None THEN by_emotion
     ELSE IF by_context.branch # None THEN by_context
     ELSE IF by_intent.branch # None THEN by_intent
     ELSE IF by_insight.branch # None THEN by_insight
     ELSE IF by_tool.branch # None THEN by_tool
     ELSE fallback_branch(mem, name_prefix)

\* the branches after the turn is recorded, in the order of the source: the
\* first that returns gives the reply
dispatch(mem, a, name_prefix, name_suffix, intensity_prefix, coin) ==
  LET crisis == self_harm_branch(mem, a.intent)
      by_context == context_branch(mem, a.emotion, a.context, name_prefix, intensity_prefix)
      by_emotion == emotion_branch(mem, a.emotion, name_prefix, name_suffix, intensity_prefix)
      by_intent == intent_branch(mem, a.intent, name_prefix)
      by_insight == insight_branch(mem, coin)
      by_tool == tool_branch(mem, a)
  IN IF crisis.branch # None THEN crisis
     ELSE IF by_context.branch # None THEN by_context
     ELSE IF by_emotion.branch # None THEN by_emotion
     ELSE IF by_intent.branch # None THEN by_intent
     ELSE IF by_insight.branch # None THEN by_insight
     ELSE IF by_tool.branch # None THEN by_tool
     ELSE fallback_branch(mem, name_prefix)

\* the record of the user's turn in conversation_context
turn_record(ut, a, sentiment_label) ==
  [user |-> ut,
   intent |-> a.intent,
   emotion |-> a.emotion,
   intensity |-> a.intensity,
   context |-> a.context,
   sentiment |-> sentiment_label]

\* record_turn as it would be if last_emotion were assigned on every turn, also
\* when no emotion is detected: C28 must reject it
record_turn_forgetful(mem, ut, a, sentiment_label) ==
  [mem EXCEPT
     !.turn_count = @ + 1,
     !.conversation_context =
        append_capped(@, turn_record(ut, a, sentiment_label), MaxConversationContext),
     !.last_emotion = a.emotion,
     !.last_emotion_intensity = a.intensity]

\* record_turn as it would be without the turn_count += 1: C18 must reject it
record_turn_uncounted(mem, ut, a, sentiment_label) ==
  [mem EXCEPT
     !.conversation_context =
        append_capped(@, turn_record(ut, a, sentiment_label), MaxConversationContext),
     !.last_emotion = IF a.emotion # None THEN a.emotion ELSE @,
     !.last_emotion_intensity = IF a.emotion # None THEN a.intensity ELSE @]

\* turn_count += 1, the turn appended to conversation_context, the last-emotion
\* caches updated
record_turn(mem, ut, a, sentiment_label) ==
  [mem EXCEPT
     !.turn_count = @ + 1,
     !.conversation_context =
        append_capped(@, turn_record(ut, a, sentiment_label), MaxConversationContext),
     !.last_emotion = IF a.emotion # None THEN a.emotion ELSE @,
     !.last_emotion_intensity = IF a.emotion # None THEN a.intensity ELSE @]

\* the name-introduction branch
name_branch(mem, name) ==
  IF name # None
  THEN Out(raise_relationship([mem EXCEPT !.username = name], 1), "name_introduction",
           << "Nice to meet you, " \o name \o "! I'm " \o BotName
                \o ". How are you doing today?" >>)
  ELSE NoReply

intensity_prefix_of(intensity) ==
  IF intensity >= 20 THEN "I can really sense "
  ELSE IF intensity <= 7 THEN "I hear "
  ELSE ""

\* name_prefix as it would be if the stored username were not used
name_prefix_unused(mem) == ""

\* name_prefix = f"{username}, " if username else ""
name_prefix_of(mem) ==
  IF mem.username # None /\ mem.username # "" THEN mem.username \o ", " ELSE ""

\* name_suffix = (", " + name_prefix.rstrip(", ")) if name_prefix else ""
name_suffix_of(name_prefix) ==
  IF name_prefix # "" THEN ", " \o rstrip(name_prefix, {",", " "}) ELSE ""

\* reply_pipeline as it would be if the name branch came after the turn is
\* recorded: C24 must reject it
reply_pipeline_recorded(mem, ut, a, sentiment_label, coin) ==
  LET recorded == record_turn(mem, ut, a, sentiment_label)
      introduced == name_branch(recorded, a.name)
      name_prefix == name_prefix_of(recorded)
      name_suffix == name_suffix_of(name_prefix)
  IN IF introduced.branch # None THEN introduced
     ELSE dispatch(recorded, a, name_prefix, name_suffix,
                   intensity_prefix_of(a.intensity), coin)

\* generate_reply after the empty-input test and update_mood
reply_pipeline(mem, ut, a, sentiment_label, coin) ==
  LET introduced == name_branch(mem, a.name)
      recorded == record_turn(mem, ut, a, sentiment_label)
      name_prefix == name_prefix_of(recorded)
      name_suffix == name_suffix_of(name_prefix)
  IN IF introduced.branch # None THEN introduced
     ELSE dispatch(recorded, a, name_prefix, name_suffix,
                   intensity_prefix_of(a.intensity), coin)

(***************************************************************************)
(* The texts of the turns                                                  *)
(***************************************************************************)
SentimentLabels == {None, "Positive", "Negative", "Neutral"}

\* turns that build up a session
PrepUtterances == {"", "my name is Alex", "I feel sad"}

Utterances ==
  {"", "   ", "I feel sad", "my name is Alex", "my name is Bob", "ok",
   "I feel extremely anxious about my exam",
   "I want to die", "I am about to kill myself",
   "I feel hopeless since she left me, I want to die",
   "I feel loved", "I am so happy", "I feel hopeful", "I feel bored",
   "thank you", "bye", "hello", "my job interview", "she left me",
   "tips", "breathe"}

\* a word that makes the detector return the emotion label: the label itself,
\* but for overwhelmed, a word the anxious pattern also holds
EmotionCue(label) == IF label = "overwhelmed" THEN "swamped" ELSE label

ContextCue ==
  [c \in {CONTEXT_PATTERNS[i].label : i \in 1..Len(CONTEXT_PATTERNS)} |->
     CASE c = "breakup" -> "breakup"
       [] c = "family_issue" -> "family"
       [] c = "academic_stress" -> "exam"
       [] c = "job_stress" -> "job"
       [] c = "health" -> "hospital"
       [] c = "financial" -> "debt"]

\* self-harm phrasing together with every emotion and every context, or none
CrisisUtterances ==
  {"I " \o e \o c \o "want to die" :
     e \in {""} \cup {"feel " \o EmotionCue(l) \o " and " : l \in EmotionLabels},
     c \in {""} \cup {"after the " \o ContextCue[x] \o " I " : x \in DOMAIN ContextCue}}
  \cup {"I want to kill myself", "I am about to kill myself", "thinking about suicide",
        "I am sad and want to end my life", "I want to hurt myself",
        "self harm after the breakup", "I don't want to live, my name is Alex"}

\* the place of an emotion label in the lexicon
EmotionIndex(label) ==
  CHOOSE i \in 1..Len(EMOTION_PATTERNS) : EMOTION_PATTERNS[i].label = label

\* two emotion words in one text, the later of the lexicon first; one; none
EmotionPairUtterances ==
  UNION {{"I feel " \o EmotionCue(x) \o " and " \o EmotionCue(y) :
            y \in {l \in EmotionLabels : EmotionIndex(l) < EmotionIndex(x)}} :
           x \in EmotionLabels}
  \cup {"I feel " \o EmotionCue(x) : x \in EmotionLabels}
  \cup {"ok", "I'm a bit overwhelmed and thrilled", "blessed, restless and disappointed",
        "sad but hopeful", "hurt yet proud and curious"}

\* turns that move the mood score, each with the sentiment label of the call
MoodTurns ==
  ({"I feel extremely sad", "I am extremely hopeful", "I feel hopeless",
    "I am slightly confident", "I feel bored"} \X {None})
  \cup ({"ok"} \X SentimentLabels)
  \cup {<< "I feel bored", "Positive" >>, << "I feel extremely sad", "Positive" >>,
        << "I am extremely hopeful", "Negative" >>,
        << "I feel slightly hopeless", None >>, << "I am extremely hopeless", "Positive" >>}
  \cup ({"I feel jealous", "I feel confused", "I feel tired", "I feel numb",
         "I feel nostalgic", "I feel curious"} \X {"Negative"})

HistoryUtterances == {"", "ok", "my name is Alex", "I feel sad"}

WrapperUtterances == {"", "my exam"}

RelationshipPrep == {"I feel loved", "thank you", "my exam"}

RelationshipUtterances ==
  {"my name is Alex", "I am happy", "I am excited", "I am proud", "I am grateful",
   "I feel loved", "bye", "thank you", "hello", "I feel sad", "I feel relieved", "",
   "I feel loved since she left me", "I am happy, I want to die"}

\* one emotion word and one context word, or a context word alone, in a text
\* without self-harm phrasing
EmotionContextUtterances ==
  {"I feel " \o EmotionCue(l) \o " after the " \o ContextCue[c] :
     l \in EmotionLabels, c \in DOMAIN ContextCue}
  \cup {"I feel " \o EmotionCue(l) \o ", tips to relax on my exam job please" : l \in EmotionLabels}
  \cup {"after the " \o ContextCue[c] : c \in DOMAIN ContextCue}

\* turns that set last_topic, fill the emotion history and store a name
EmotionStagePrep == {"my exam", "I feel sad", "my name is Alex"}

\* texts answered by templated branches, turns that change what the templates
\* use, requests for the tools, and an emotion with a context and with
\* self-harm phrasing
RepeatUtterances ==
  {"I feel sad", "hello", "thank you", "I feel loved", "she left me", "my name is Alex",
   "breathe", "tips", "ground", "affirmation",
   "I feel hopeless after the breakup", "I am sad and want to end my life"}

\* texts of two struggling emotions, two other emotions and no emotion
InsightUtterances == {"I feel sad", "I feel lonely", "I am so happy", "I feel bored", "ok"}

\* texts with two cues (the modifiers of the intensity lexicon, and a word that
\* is none) in either order, with and without an emotion word, and texts where
\* a modifier occurs inside another word or in upper case
IntensityUtterances ==
  LET IntensityCues ==
        {INTENSITY_MODIFIERS[i].modifier : i \in 1..Len(INTENSITY_MODIFIERS)} \cup {"not"}
  IN {"I am " \o m1 \o " and " \o m2 \o " " \o w :
        m1 \in IntensityCues, m2 \in IntensityCues, w \in {"sad", "here"}}
  \cup {"I feel sad every day", "I am sorry", "something is off", "I AM VERY SAD",
        "I feel sad", "ok"}

\* first turns without an emotion, with and without a modifier, and with one
IntensityPrep == {"it is really something", "ok", "I feel sad"}

\* texts with a cue of each priority intent (or none: well) and a keyword of the
\* exam, study and job groups (or none: nothing), with several priority cues,
\* with several keywords, and with a keyword inside another word; quiz, learn
\* and resume are in no context pattern
IntentUtterances ==
  LET PriorityCues == {"hello", "goodbye", "thank you", "you are stupid", "I want to die", "well"}
      TopicCues == {"my quiz", "I learn", "my resume", "my exam", "nothing"}
  IN {p \o " " \o k : p \in PriorityCues, k \in TopicCues}
  \cup {"thank you and goodbye", "stupid me, hello", "shut up or I kill myself",
        "see you later, thanks for the quiz", "resume to learn for the quiz",
        "my resume, then I learn", "this is the latest", "finally"}

\* first turns that set last_topic, and one that does not
IntentPrep == {"my quiz", "I learn", "ok"}

AllUtterances ==
  PrepUtterances \cup Utterances \cup CrisisUtterances \cup EmotionPairUtterances
    \cup {t[1] : t \in MoodTurns} \cup HistoryUtterances \cup WrapperUtterances
    \cup RelationshipPrep \cup RelationshipUtterances
    \cup EmotionContextUtterances \cup EmotionStagePrep \cup RepeatUtterances
    \cup {"hello", "my name is Alex", "I feel sad", "bye"}
    \cup InsightUtterances \cup IntensityUtterances \cup IntensityPrep
    \cup IntentUtterances \cup IntentPrep

\* the detector's results, tabulated once over the texts of the turns
ANALYSIS == [ut \in {strip(u) : u \in AllUtterances} |-> analyse(ut)]

Analysis(ut) == ANALYSIS[ut]

(***************************************************************************)
(* Entry points                                                            *)
(***************************************************************************)
\* the AttributeError of user_text.strip() when user_text is None
STRIP_ERROR == "'NoneType' object has no attribute 'strip'"

generate_reply(mem, user_text, sentiment_label, timestamp, coin) ==
  LET ut == strip(user_text)
  IN IF user_text = None THEN Out(mem, "raise", << STRIP_ERROR >>)
     ELSE IF ut = "" THEN Out(mem, "empty", << LISTENING_PROMPT >>)
     ELSE LET a == Analysis(ut)
          IN reply_pipeline(update_mood(mem, sentiment_label, a.emotion, a.intensity, timestamp),
                            ut, a, sentiment_label, coin)

\* respond: generate_reply, then the reply appended to conversation_context
respond(out, reply) ==
  [out.memory EXCEPT !.conversation_context = Append(@, [bot |-> reply])]

\* respond's except branch
error_reply(e) == "I ran into an error: " \o e \o ". Could you rephrase that?"

(***************************************************************************)
(* State and actions                                                       *)
(***************************************************************************)
VARIABLES
  memory,           \* AdvancedBot.memory
  reply,            \* the reply the last call returned
  branch,           \* the branch of generate_reply that returned it
  entry,            \* the entry point of the last call
  user_text,        \* its arguments
  sentiment_label,
  now,              \* the clock datetime.now() reads; it advances with every call
  caller,           \* the HTTP client whose request was served last
  hist,             \* ConversationManager.hist of the HTTP wrapper
  disk,             \* the file bot_memory.json
  console,          \* the position of the console loop
  threads           \* the request threads of the HTTP wrapper

vars == << memory, reply, branch, entry, user_text, sentiment_label, now,
           caller, hist, disk, console, threads >>

\* the request threads
Threads == {1, 2}

IdleThread == [pc |-> "idle", user_text |-> None, sentiment_label |-> None,
               mood_score |-> 0, turn_count |-> 0, reply |-> None]

NoFile == [exists |-> FALSE, document |-> << >>]

Init ==
  /\ memory = DefaultMemory
  /\ reply = None
  /\ branch = None
  /\ entry = None
  /\ user_text = None
  /\ sentiment_label = None
  /\ now = 0
  /\ caller = None
  /\ hist = << >>
  /\ disk = NoFile
  /\ console = "off"
  /\ threads = [t \in Threads |-> IdleThread]

\* a call of AdvancedBot.generate_reply(u, s), as the HTTP handler makes it: the
\* text as posted, not stripped, and possibly empty; an exception leaves the
\* caller without a reply
GenerateReply(u, s) ==
  \E coin \in BOOLEAN :
    \E out \in {generate_reply(memory, u, s, now, coin)} :
       \E i \in 1..Len(out.responses) :
         /\ memory' = out.memory
         /\ reply' = IF out.branch = "raise" THEN None ELSE out.responses[i]
         /\ branch' = out.branch
         /\ entry' = "generate_reply"
         /\ user_text' = u
         /\ sentiment_label' = s
         /\ now' = now + 1
         /\ UNCHANGED << caller, hist, disk, console, threads >>

\* a call of AdvancedBot.respond(u, s), as the console loop makes it for a
\* non-empty line and as any other caller of the class makes it for any text
Respond(u, s) ==
  \E coin \in BOOLEAN :
    \E out \in {generate_reply(memory, u, s, now, coin)} :
       \E i \in 1..Len(out.responses) :
         /\ memory' = IF out.branch = "raise" THEN out.memory
                       ELSE respond(out, out.responses[i])
         /\ reply' = IF out.branch = "raise" THEN error_reply(out.responses[i])
                      ELSE out.responses[i]
         /\ branch' = out.branch
         /\ entry' = "respond"
         /\ user_text' = u
         /\ sentiment_label' = s
         /\ now' = now + 1
         /\ UNCHANGED << caller, hist, disk, console, threads >>

\* the texts a turn may use: prep while more than one turn is left before the
\* bound, probe for the last turn
InputsAt(prep, probe, bound) ==
  IF now + 1 < bound THEN prep ELSE IF now < bound THEN probe ELSE {}

MaxTurns == 3

\* a session of prep turns, then one turn of any text through either entry point
Next ==
  \/ \E u \in InputsAt(PrepUtterances, Utterances, MaxTurns), s \in {None, "Negative"} :
       GenerateReply(u, s)
  \/ \E u \in InputsAt({}, Utterances, MaxTurns), s \in {None, "Negative"} :
       Respond(u, s)

Spec == Init /\ [][Next]_vars

MaxCrisisTurns == 2

\* a prep turn, then a turn with self-harm phrasing
NextCrisis ==
  \/ \E u \in InputsAt(PrepUtterances, CrisisUtterances, MaxCrisisTurns) :
       GenerateReply(u, "Negative")
  \/ \E u \in InputsAt({}, CrisisUtterances, MaxCrisisTurns) :
       Respond(u, None)

SpecCrisis == Init /\ [][NextCrisis]_vars

MaxDetectTurns == 2

\* a prep turn, then a turn whose text holds up to three emotion words
NextDetect ==
  \E u \in InputsAt(PrepUtterances, EmotionPairUtterances, MaxDetectTurns) :
    GenerateReply(u, None)

SpecDetect == Init /\ [][NextDetect]_vars

MaxMoodTurns == 3

\* turns that raise and lower the mood score
NextMood ==
  \E t \in MoodTurns : now < MaxMoodTurns /\ GenerateReply(t[1], t[2])

SpecMood == Init /\ [][NextMood]_vars

VarietyTurns == 2

MaxHistoryTurns == 23

\* a few turns of different kinds, then the same turn until the histories overflow
NextHistory ==
  \E u \in (IF now < VarietyTurns THEN HistoryUtterances
            ELSE IF now < MaxHistoryTurns THEN {"ok"} ELSE {}) :
    GenerateReply(u, None)

SpecHistory == Init /\ [][NextHistory]_vars

MaxWrapperTurns == 6

\* turns through both entry points
NextWrapper ==
  \/ \E u \in WrapperUtterances : now < MaxWrapperTurns /\ GenerateReply(u, None)
  \/ \E u \in WrapperUtterances : now < MaxWrapperTurns /\ Respond(u, None)

SpecWrapper == Init /\ [][NextWrapper]_vars

MaxRelationshipTurns == 7

\* turns that raise the relationship level to its cap and set last_topic, then
\* one turn of any kind with or without a sentiment label
NextRelationship ==
  \/ \E u \in InputsAt(RelationshipPrep, RelationshipUtterances, MaxRelationshipTurns),
        s \in InputsAt({None}, {None, "Positive", "Negative"}, MaxRelationshipTurns) :
       GenerateReply(u, s)
  \/ \E u \in InputsAt({}, RelationshipUtterances, MaxRelationshipTurns) :
       Respond(u, None)

SpecRelationship == Init /\ [][NextRelationship]_vars


MaxEmotionStageTurns == 3

\* prep turns, then a turn with an emotion word and a context or trigger word
NextEmotionStage ==
  \E u \in InputsAt(EmotionStagePrep, EmotionContextUtterances, MaxEmotionStageTurns) :
    GenerateReply(u, None)

SpecEmotionStage == Init /\ [][NextEmotionStage]_vars

MaxRepeatTurns == 4

\* the same few texts again and again, in any order
NextRepeat ==
  \E u \in RepeatUtterances : now < MaxRepeatTurns /\ GenerateReply(u, None)

SpecRepeat == Init /\ [][NextRepeat]_vars

MaxInsightTurns == 6

\* sessions long enough for the window of get_emotional_insight to slide
NextInsight ==
  \E u \in InsightUtterances : now < MaxInsightTurns /\ GenerateReply(u, None)

SpecInsight == Init /\ [][NextInsight]_vars

MaxIntensityTurns == 2

\* a first turn, then a turn whose text holds up to two intensity modifiers
NextIntensity ==
  \E u \in InputsAt(IntensityPrep, IntensityUtterances, MaxIntensityTurns) :
    GenerateReply(u, None)

SpecIntensity == Init /\ [][NextIntensity]_vars

MaxIntentTurns == 3

\* first turns, then a turn whose text mixes priority cues and topic keywords
NextIntent ==
  \E u \in InputsAt(IntentPrep, IntentUtterances, MaxIntentTurns) :
    GenerateReply(u, None)

SpecIntent == Init /\ [][NextIntent]_vars

(***************************************************************************)
(* The HTTP wrapper                                                        *)
(***************************************************************************)
Callers == {"A", "B"}

\* ConversationManager.add_exchange
add_exchange(h, u, b, s, timestamp) ==
  Append(h, [timestamp |-> timestamp, user |-> u, bot |-> b, sentiment |-> s])

\* a POST to /api/message by caller c with message u, for which analyze_text
\* gives the label s: the one engine of the module answers whoever calls, and
\* an exception of generate_reply leaves msg before add_exchange, with no reply
Msg(c, u, s) ==
  \E coin \in BOOLEAN :
    \E out \in {generate_reply(memory, u, s, now, coin)} :
       \E i \in 1..Len(out.responses) :
         /\ memory' = out.memory
         /\ reply' = IF out.branch = "raise" THEN None ELSE out.responses[i]
         /\ hist' = IF out.branch = "raise" THEN hist
                    ELSE add_exchange(hist, u, out.responses[i], s, now)
         /\ branch' = out.branch
         /\ entry' = "msg"
         /\ user_text' = u
         /\ sentiment_label' = s
         /\ now' = now + 1
         /\ caller' = c
         /\ UNCHANGED << disk, console, threads >>

\* the messages of caller A, who gives a name, and of caller B, who does not
CallerUtterances ==
  [c \in Callers |-> IF c = "A" THEN {"my name is Alex", "I feel sad"}
                     ELSE {"I feel sad", "hello"}]

MaxCallerTurns == 4

\* requests of two callers, one after the other in any order
NextCallers ==
  \E c \in Callers : \E u \in CallerUtterances[c], s \in {"Neutral", "Negative"} :
    now < MaxCallerTurns /\ Msg(c, u, s)

SpecCallers == Init /\ [][NextCallers]_vars

\* a message that is JSON null, and messages that are strings
FaultUtterances == {None, "I feel sad", "my name is Alex", ""}

MaxFaultTurns == 3

\* calls with and without a string as the text, through every entry path
NextFault ==
  \/ \E u \in FaultUtterances : now < MaxFaultTurns /\ Msg("A", u, "Neutral")
  \/ \E u \in FaultUtterances : now < MaxFaultTurns /\ Respond(u, None)

SpecFault == Init /\ [][NextFault]_vars

(***************************************************************************)
(* The memory file                                                         *)
(***************************************************************************)
\* JSON values, as json.dump writes them and json.load reads them
json_null == [json |-> "null"]

json_string(s) == [json |-> "string", value |-> s]

json_number(n) == [json |-> "number", value |-> n]

json_array(items) == [json |-> "array", items |-> items]

json_object(members) == [json |-> "object", members |-> members]

\* None is written as null, a str as a string
json_optional(v) == IF v = None THEN json_null ELSE json_string(v)

\* one entry of emotion_history as a JSON object
json_emotion_entry(e) ==
  json_object([timestamp |-> json_string(e.timestamp),
               emotion |-> json_optional(e.emotion),
               intensity |-> json_number(e.intensity),
               mood_score |-> json_number(e.mood_score),
               sentiment |-> json_optional(e.sentiment)])

\* one entry of conversation_context as a JSON object: the user's turn, or the
\* reply that respond appends
json_context_entry(e) ==
  IF "bot" \in DOMAIN e THEN json_object([bot |-> json_string(e.bot)])
  ELSE json_object([user |-> json_string(e.user),
                    intent |-> json_optional(e.intent),
                    emotion |-> json_optional(e.emotion),
                    intensity |-> json_number(e.intensity),
                    context |-> json_optional(e.context),
                    sentiment |-> json_optional(e.sentiment)])

\* json.dump(self.memory)
json_dump(mem) ==
  json_object(
    [username |-> json_optional(mem.username),
     last_topic |-> json_optional(mem.last_topic),
     mood_score |-> json_number(mem.mood_score),
     mood_history |-> json_array([i \in 1..Len(mem.mood_history) |->
                                    json_number(mem.mood_history[i])]),
     emotion_history |-> json_array([i \in 1..Len(mem.emotion_history) |->
                                       json_emotion_entry(mem.emotion_history[i])]),
     conversation_context |-> json_array([i \in 1..Len(mem.conversation_context) |->
                                            json_context_entry(mem.conversation_context[i])]),
     turn_count |-> json_number(mem.turn_count),
     awaiting_response |-> json_optional(mem.awaiting_response),
     last_emotion |-> json_optional(mem.last_emotion),
     last_emotion_intensity |-> json_number(mem.last_emotion_intensity),
     relationship_level |-> json_number(mem.relationship_level)])

\* json.load: null is None, an array a list, an object a dict
RECURSIVE json_load(_)
json_load(j) ==
  IF j.json = "null" THEN None
  ELSE IF j.json = "array" THEN [i \in 1..Len(j.items) |-> json_load(j.items[i])]
  ELSE IF j.json = "object" THEN [k \in DOMAIN j.members |-> json_load(j.members[k])]
  ELSE j.value

\* dict.update: the keys of loaded take its values, the other keys stay
dict_update(mem, loaded) ==
  [k \in DOMAIN mem \cup DOMAIN loaded |->
     IF k \in DOMAIN loaded THEN loaded[k] ELSE mem[k]]

\* save_memory: the file is replaced by the dump of self.memory
save_memory(mem) == [exists |-> TRUE, document |-> json_dump(mem)]

\* load_memory as it would be if it rebuilt the memory from the defaults and
\* the file: C16 must reject it
load_memory_replace(mem, file) ==
  IF file.exists THEN dict_update(DefaultMemory, json_load(file.document)) ELSE mem

\* load_memory: nothing without the file, else self.memory.update(json.load(f))
load_memory(mem, file) ==
  IF file.exists THEN dict_update(mem, json_load(file.document)) ELSE mem

\* bot.save_memory()
SaveMemory ==
  /\ disk' = save_memory(memory)
  /\ entry' = "save_memory"
  /\ UNCHANGED << memory, reply, branch, user_text, sentiment_label, now,
                  caller, hist, console, threads >>

\* bot.load_memory()
LoadMemory ==
  /\ memory' = load_memory(memory, disk)
  /\ entry' = "load_memory"
  /\ UNCHANGED << reply, branch, user_text, sentiment_label, now,
                  caller, hist, disk, console, threads >>

\* documents with some of the memory's fields, as an earlier version of the
\* program or an editor may have left them in the file
Documents ==
  {json_object([username |-> json_string("Sam")]),
   json_object([mood_score |-> json_number(5), relationship_level |-> json_number(7)]),
   json_object([username |-> json_null, conversation_context |-> json_array(<< >>)]),
   json_object(<< >>)}

\* the file is written or removed from outside the program
ReplaceFile(file) ==
  /\ disk' = file
  /\ entry' = "replace_file"
  /\ UNCHANGED << memory, reply, branch, user_text, sentiment_label, now,
                  caller, hist, console, threads >>

PersistUtterances == {"my name is Alex", "I feel sad", "hello"}

MaxPersistTurns == 2

\* turns, saves and loads in any order, over files of every kind
NextPersist ==
  \/ \E u \in PersistUtterances : now < MaxPersistTurns /\ Respond(u, None)
  \/ SaveMemory
  \/ LoadMemory
  \/ \E d \in Documents : ReplaceFile([exists |-> TRUE, document |-> d])
  \/ ReplaceFile(NoFile)

SpecPersist == Init /\ [][NextPersist]_vars

(***************************************************************************)
(* The console loop                                                        *)
(***************************************************************************)
CONSOLE_POSITIVE == << "happy", "great", "awesome", "amazing", "love", "excited", "proud" >>

CONSOLE_NEGATIVE ==
  << "sad", "depressed", "angry", "upset", "stressed", "anxious", "terrible",
     "awful", "lonely", "hurt" >>

\* the label the loop gives a line: two re.search calls, the second overriding
console_sentiment(u) ==
  IF \E i \in 1..Len(CONSOLE_NEGATIVE) : Contains(lower(u), CONSOLE_NEGATIVE[i])
  THEN "Negative"
  ELSE IF \E i \in 1..Len(CONSOLE_POSITIVE) : Contains(lower(u), CONSOLE_POSITIVE[i])
  THEN "Positive"
  ELSE None

\* bot = AdvancedBot(); bot.load_memory()
ConsoleStart ==
  /\ console = "off"
  /\ memory' = load_memory(DefaultMemory, disk)
  /\ console' = "input"
  /\ entry' = "load_memory"
  /\ UNCHANGED << reply, branch, user_text, sentiment_label, now, caller, hist,
                  disk, threads >>

\* input() returns a line: an empty line starts the loop again, exit and quit
\* lead to the farewell, any other line to a turn
ConsoleLine(line) ==
  /\ console = "input"
  /\ LET u == strip(line)
     IN IF u = "" THEN UNCHANGED << console, user_text, sentiment_label >>
        ELSE IF lower(u) \in {"exit", "quit"}
        THEN /\ console' = "exit"
             /\ UNCHANGED << user_text, sentiment_label >>
        ELSE /\ console' = "turn"
             /\ user_text' = u
             /\ sentiment_label' = console_sentiment(u)
  /\ entry' = "input"
  /\ UNCHANGED << memory, reply, branch, now, caller, hist, disk, threads >>

\* reply = bot.respond(u, sentiment_label=sentiment), then the reply is printed
ConsoleTurn ==
  /\ console = "turn"
  /\ \E coin \in BOOLEAN :
       \E out \in {generate_reply(memory, user_text, sentiment_label, now, coin)} :
         \E i \in 1..Len(out.responses) :
           /\ memory' = respond(out, out.responses[i])
           /\ reply' = out.responses[i]
           /\ branch' = out.branch
  /\ console' = "input"
  /\ entry' = "respond"
  /\ now' = now + 1
  /\ UNCHANGED << user_text, sentiment_label, caller, hist, disk, threads >>

\* print(bot.respond('bye')); bot.save_memory(); break
ConsoleExit ==
  /\ console = "exit"
  /\ \E coin \in BOOLEAN :
       \E out \in {generate_reply(memory, "bye", None, now, coin)} :
         \E i \in 1..Len(out.responses) :
           /\ memory' = respond(out, out.responses[i])
           /\ reply' = out.responses[i]
           /\ branch' = out.branch
           /\ disk' = save_memory(respond(out, out.responses[i]))
  /\ console' = "ended"
  /\ entry' = "respond"
  /\ user_text' = "bye"
  /\ sentiment_label' = None
  /\ now' = now + 1
  /\ UNCHANGED << caller, hist, threads >>

\* end of input: input() raises EOFError, which the loop catches around input()
ConsoleEOF ==
  /\ console = "input"
  /\ disk' = save_memory(memory)
  /\ console' = "ended"
  /\ entry' = "save_memory"
  /\ UNCHANGED << memory, reply, branch, user_text, sentiment_label, now,
                  caller, hist, threads >>

\* Ctrl-C: KeyboardInterrupt is caught around input() alone; raised while the
\* loop handles a line it is no Exception for respond to catch, and it ends
\* the process with the file as it was
ConsoleInterrupt ==
  /\ console \in {"input", "turn", "exit"}
  /\ disk' = IF console = "input" THEN save_memory(memory) ELSE disk
  /\ console' = "ended"
  /\ entry' = "interrupt"
  /\ UNCHANGED << memory, reply, branch, user_text, sentiment_label, now,
                  caller, hist, threads >>

ConsoleLines == {"", "exit", "QUIT", "I feel sad", " hello ", "I am happy", "my name is Alex"}

MaxConsoleTurns == 3

\* one run of the program, started with or without a memory file
NextConsole ==
  \/ \E d \in Documents : console = "off" /\ disk = NoFile
                          /\ ReplaceFile([exists |-> TRUE, document |-> d])
  \/ ConsoleStart
  \/ \E line \in ConsoleLines : now < MaxConsoleTurns /\ ConsoleLine(line)
  \/ ConsoleTurn
  \/ ConsoleExit
  \/ ConsoleEOF
  \/ ConsoleInterrupt

SpecConsole == Init /\ [][NextConsole]_vars

(***************************************************************************)
(* Concurrent requests                                                     *)
(***************************************************************************)
\* update_mood assigns memory["mood_score"] in these cases and in no other
mood_is_assigned(label, emotion) ==
  IF emotion # None
  THEN emotion \in MOOD_NEGATIVE_EMOTIONS \cup MOOD_POSITIVE_EMOTIONS
  ELSE label \in {"Positive", "Negative"}

\* a request reaches a handler thread: d.get("message"), analyze_text
MsgReceive(t, u, s) ==
  /\ threads[t].pc = "idle"
  /\ threads' = [threads EXCEPT ![t] = [IdleThread EXCEPT !.pc = "start",
                                                         !.user_text = u,
                                                         !.sentiment_label = s]]
  /\ now' = now + 1
  /\ entry' = "receive"
  /\ UNCHANGED << memory, reply, branch, user_text, sentiment_label, caller, hist,
                  disk, console >>

\* msg returns: add_exchange and the response
MsgReturn(t, out, r) ==
  /\ memory' = out.memory
  /\ threads' = [threads EXCEPT ![t].pc = "done", ![t].reply = r]
  /\ hist' = add_exchange(hist, threads[t].user_text, r, threads[t].sentiment_label, now)
  /\ reply' = r
  /\ branch' = out.branch
  /\ user_text' = threads[t].user_text
  /\ sentiment_label' = threads[t].sentiment_label
  /\ entry' = "msg"
  /\ UNCHANGED << now, caller, disk, console >>

\* generate_reply up to the read of memory["mood_score"] in update_mood; an
\* empty text is answered at once
MsgReadMood(t) ==
  /\ threads[t].pc = "start"
  /\ IF strip(threads[t].user_text) = ""
     THEN MsgReturn(t, Out(memory, "empty", << LISTENING_PROMPT >>), LISTENING_PROMPT)
     ELSE /\ threads' = [threads EXCEPT ![t].pc = "mood",
                                        ![t].mood_score = memory.mood_score]
          /\ entry' = "read_mood"
          /\ UNCHANGED << memory, reply, branch, user_text, sentiment_label, now,
                          caller, hist, disk, console >>

\* the assignment of memory["mood_score"] from the value read, the append to
\* emotion_history, the name branch, and the read of memory["turn_count"]
MsgWriteMood(t) ==
  /\ threads[t].pc = "mood"
  /\ \E a \in {Analysis(strip(threads[t].user_text))} :
     \E seen \in {IF mood_is_assigned(threads[t].sentiment_label, a.emotion)
                  THEN [memory EXCEPT !.mood_score = threads[t].mood_score]
                  ELSE memory} :
     \E updated \in {update_mood(seen, threads[t].sentiment_label, a.emotion,
                                 a.intensity, now)} :
     \E introduced \in {name_branch(updated, a.name)} :
       IF introduced.branch # None
       THEN MsgReturn(t, introduced, introduced.responses[1])
       ELSE /\ memory' = updated
            /\ threads' = [threads EXCEPT ![t].pc = "count",
                                          ![t].turn_count = updated.turn_count]
            /\ entry' = "write_mood"
            /\ UNCHANGED << reply, branch, user_text, sentiment_label, now,
                            caller, hist, disk, console >>

\* the assignment of memory["turn_count"] from the value read, and the rest of
\* generate_reply
MsgWriteCount(t) ==
  /\ threads[t].pc = "count"
  /\ \E coin \in BOOLEAN :
     \E out \in {reply_pipeline([memory EXCEPT !.turn_count = threads[t].turn_count],
                                strip(threads[t].user_text),
                                Analysis(strip(threads[t].user_text)),
                                threads[t].sentiment_label, coin)} :
     \E i \in 1..Len(out.responses) : MsgReturn(t, out, out.responses[i])

ConcurrentUtterances == {"", "I feel sad", "I am so happy", "thank you", "my name is Alex"}

\* one request for each handler thread, their steps in any order
NextConcurrent ==
  \/ \E t \in Threads, u \in ConcurrentUtterances, s \in {"Neutral", "Negative"} :
       MsgReceive(t, u, s)
  \/ \E t \in Threads : MsgReadMood(t)
  \/ \E t \in Threads : MsgWriteMood(t)
  \/ \E t \in Threads : MsgWriteCount(t)

SpecConcurrent == Init /\ [][NextConcurrent]_vars

(***************************************************************************)
(* Properties                                                              *)
(***************************************************************************)
\* a call has been made and its text was not empty after strip()
NonEmptyTurn == entry # None /\ strip(user_text) # ""

\* the newest entry of emotion_history
LastMood == memory.emotion_history[Len(memory.emotion_history)]

\* C1: every non-empty turn whose text the priority-intent check labels
\* self_harm is answered with the crisis message, whatever else the text holds
\* (a name introduction included)
C1_CrisisUnconditional ==
  (NonEmptyTurn /\ check_priority_regex(strip(user_text)) = "self_harm")
    => reply = CRISIS_MESSAGE

\* C2: a non-empty turn labelled self_harm in which an emotion or a life
\* context is detected as well is answered by the self-harm branch with the
\* crisis message, never by a context or emotion branch
C2_CrisisOverEmotionAndContext ==
  (/\ NonEmptyTurn
   /\ check_priority_regex(strip(user_text)) = "self_harm"
   /\ \/ detect_emotion_with_intensity(strip(user_text)).emotion # None
      \/ detect_context(strip(user_text)) # None)
    => branch = "self_harm" /\ reply = CRISIS_MESSAGE

\* the crisis message answered a text with self-harm phrasing, the emotion
\* hopeless and the context breakup
C2_Witness ==
  /\ entry = "generate_reply"
  /\ branch = "self_harm"
  /\ reply = CRISIS_MESSAGE
  /\ memory.last_emotion = "hopeless"
  /\ memory.conversation_context[Len(memory.conversation_context)].context = "breakup"

\* C3: the mood score stays within -10..10, the extra steps of the hopeless,
\* hopeful and confident branches included
C3_MoodScoreBounded == memory.mood_score \in -10..10

\* update_mood had already brought the score to 10 when the hopeful branch
\* added its 2, and it stays 10
C3_Witness ==
  /\ branch = "hopeful"
  /\ Len(memory.emotion_history) >= 2
  /\ LastMood.mood_score = 10
  /\ LastMood.intensity = 25
  /\ memory.mood_score = 10

\* C4: conversation_context never holds more than 10 records, whichever entry
\* point the turns come through
C4_ConversationContextBounded ==
  Len(memory.conversation_context) <= MaxConversationContext

\* C5: every non-empty turn appends exactly one entry, stamped with the time
\* of the call, to emotion_history, evicting the oldest entry when there were
\* 20 already; an empty turn leaves the history alone; it never exceeds 20
C5_EmotionHistoryFIFO ==
  [][LET old == memory.emotion_history
         new == memory'.emotion_history
     IN /\ Len(new) <= MaxEmotionHistory
        /\ IF strip(user_text') = "" THEN new = old
           ELSE /\ new # << >>
                /\ new[Len(new)].timestamp = now
                /\ SubSeq(new, 1, Len(new) - 1) =
                     (IF Len(old) < MaxEmotionHistory THEN old ELSE Tail(old))]_vars

\* 23 non-empty turns, one of them a name introduction: the entries of the
\* first three are gone and the last twenty are kept in order
C5_Witness ==
  /\ Len(memory.emotion_history) = MaxEmotionHistory
  /\ memory.emotion_history[1].timestamp = 3
  /\ LastMood.timestamp = 22
  /\ memory.username = "Alex"
  /\ LastMood.emotion = None /\ LastMood.sentiment = None

\* C6: a turn whose text is empty after strip() returns the listening prompt
\* and leaves the memory unchanged, through generate_reply and through respond
C6_EmptyInputFrame ==
  [][strip(user_text') = "" => (reply' = LISTENING_PROMPT /\ memory' = memory)]_vars

\* the labels of the emotion lexicon whose pattern matches the text
MatchedLabels(ut) ==
  {EMOTION_PATTERNS[i].label : i \in
     {j \in 1..Len(EMOTION_PATTERNS) :
        re_search_words(EMOTION_PATTERNS[j].pattern, safe_lower(ut))}}

MATCHED == [ut \in EmotionPairUtterances \cup PrepUtterances |-> MatchedLabels(strip(ut))]

\* the member of a non-empty set of labels that comes first in a sequence
FirstOf(order, labels) ==
  order[CHOOSE i \in 1..Len(order) :
          order[i] \in labels /\ \A j \in 1..(i - 1) : order[j] \notin labels]

LexiconOrder == [i \in 1..Len(EMOTION_PATTERNS) |-> EMOTION_PATTERNS[i].label]

NegativeLabels == {NEGATIVE_PRIORITY[i] : i \in 1..Len(NEGATIVE_PRIORITY)}

\* C7: the emotion detected for a text is the first label of the negative
\* priority list among the matched labels if there is one, else the first
\* matched label in lexicon order, and none if nothing matched
C7_NegativePriority ==
  NonEmptyTurn =>
    LET matched == MATCHED[user_text]
    IN LastMood.emotion =
         (IF matched = {} THEN None
          ELSE IF matched \cap NegativeLabels # {}
               THEN FirstOf(NEGATIVE_PRIORITY, matched)
               ELSE FirstOf(LexiconOrder, matched))

\* a text matched a positive label that comes earlier in the lexicon than the
\* negative label detected, or two negative labels whose lexicon order is the
\* reverse of their priority order
C7_Witness ==
  /\ NonEmptyTurn
  /\ LET matched == MATCHED[user_text]
     IN /\ Cardinality(matched) >= 2
        /\ LastMood.emotion \in NegativeLabels
        /\ FirstOf(LexiconOrder, matched) # LastMood.emotion
        /\ \E l \in matched \ NegativeLabels :
             EmotionIndex(l) < EmotionIndex(LastMood.emotion)

\* C8: with a username stored, every reply of the sad branch contains it
C8_SadReplyNamesUser ==
  (branch = "sad" /\ memory.username # None) => Contains(reply, memory.username)

ExamTurn == "I feel extremely anxious about my exam"

ACADEMIC_STRESS_OPENINGS ==
  {"Academic pressure can be crushing", "the exam anxiety", "School stress is no joke"}

\* C9: the turn "I feel extremely anxious about my exam" is answered from the
\* academic-stress catalog, leaves last_topic alone and lowers the mood score
\* by 7, not below -10
C9_ExamAnxietyTurn ==
  [][user_text' = ExamTurn =>
       /\ branch' = "academic_stress"
       /\ \E opening \in ACADEMIC_STRESS_OPENINGS : Contains(reply', opening)
       /\ memory'.last_topic = memory.last_topic
       /\ memory'.last_emotion = "anxious"
       /\ memory'.mood_score = Max(-10, memory.mood_score - 7)]_vars

\* the turn came first after a name introduction and took the score from 0 to
\* -7
C9_Witness ==
  /\ user_text = ExamTurn
  /\ branch = "academic_stress"
  /\ memory.username = "Alex"
  /\ memory.mood_score = -7
  /\ memory.last_topic = None

RELATIONSHIP_BRANCHES ==
  {"name_introduction", "happy", "excited", "proud", "grateful", "bye", "thanks"}

\* C10: relationship_level stays within 0..10 and no turn lowers it: the
\* name-introduction, happy, excited, proud, grateful, bye and thanks branches
\* add 1, the loved branch adds 2, both capped at 10, every other turn adds 0
C10_RelationshipLevel ==
  [][LET old == memory.relationship_level
         new == memory'.relationship_level
     IN /\ new \in 0..10
        /\ new >= old
        /\ new = (IF branch' \in RELATIONSHIP_BRANCHES THEN Min(10, old + 1)
                  ELSE IF branch' = "loved" THEN Min(10, old + 2)
                  ELSE old)]_vars

\* six turns of the loved branch in a row: the sixth found the level at 10
C10_Witness ==
  /\ entry = "generate_reply"
  /\ branch = "loved"
  /\ memory.relationship_level = 10
  /\ memory.turn_count >= 6
  /\ \A i \in 1..Len(memory.conversation_context) :
       memory.conversation_context[i].emotion = "loved"

\* C11: once a turn has stored a username, no later turn replaces it by
\* another name or clears it
C11_UsernameSetOnce ==
  [][memory.username # None => memory'.username = memory.username]_vars

\* C18: turn_count never decreases: a turn whose text is empty after strip()
\* and a turn answered by the name-introduction branch leave it alone, every
\* other turn adds exactly 1
C18_TurnCount ==
  [][memory'.turn_count =
       memory.turn_count
         + (IF strip(user_text') = "" \/ branch' = "name_introduction" THEN 0 ELSE 1)]_vars

\* a name introduction after two counted turns left the count at 2
C18_Witness ==
  /\ branch = "name_introduction"
  /\ memory.turn_count = 2
  /\ Len(memory.emotion_history) = 3

\* round(3 * intensity), the intensity in tenths (the halves 1.5 and 7.5 round
\* to the even 2 and 8)
RoundedStep(intensity) == (3 * intensity + 5) \div 10

\* C19: update_mood lowers the mood score by round(3 * intensity), not below
\* -10, for an emotion of its negative set, and raises it by round(3 *
\* intensity), not above 10, for an emotion of its positive set
C19_RoundedMoodStep ==
  [][(strip(user_text') # "" /\ memory'.emotion_history # << >>) =>
       LET e == memory'.emotion_history[Len(memory'.emotion_history)]
       IN /\ e.emotion \in MOOD_NEGATIVE_EMOTIONS =>
               e.mood_score = Max(-10, memory.mood_score - RoundedStep(e.intensity))
          /\ e.emotion \in MOOD_POSITIVE_EMOTIONS =>
               e.mood_score = Min(10, memory.mood_score + RoundedStep(e.intensity))]_vars

CONTEXT_BRANCHES == {"breakup", "family_issue", "academic_stress", "job_stress"}

\* C20: a non-empty turn on which an emotion is detected and that neither the
\* self-harm branch nor a context branch answers is answered by the branch of
\* that emotion, and last_topic keeps its value
C20_EmotionStageTerminates ==
  [][(/\ strip(user_text') # ""
      /\ Analysis(strip(user_text')).emotion # None
      /\ branch' \notin CONTEXT_BRANCHES \cup {"self_harm"}) =>
       /\ branch' = Analysis(strip(user_text')).emotion
       /\ branch' = memory'.last_emotion
       /\ memory'.last_topic = memory.last_topic]_vars

\* the happy branch answered a text that holds the word job, with last_topic
\* still the exam of an earlier turn
C20_Witness ==
  /\ user_text = "I feel happy after the job"
  /\ branch = "happy"
  /\ memory.last_topic = "exam"
  /\ predict_intent(user_text) = "job"

TEMPLATED_BRANCHES == CONTEXT_BRANCHES \cup EmotionLabels \cup {"greeting", "bye", "thanks"}

\* the branch that answers a text on a fresh engine
FRESH_BRANCH ==
  [u \in RepeatUtterances |-> generate_reply(DefaultMemory, u, None, 0, FALSE).branch]

\* the catalog of the templated branch of a text, with the name and the
\* relationship level of the memory
TemplatedCatalog(mem, ut) ==
  LET a == Analysis(ut)
      name_prefix == name_prefix_of(mem)
      intensity_prefix == intensity_prefix_of(a.intensity)
      by_context == context_branch(mem, a.emotion, a.context, name_prefix, intensity_prefix)
      by_emotion == emotion_branch(mem, a.emotion, name_prefix,
                                   name_suffix_of(name_prefix), intensity_prefix)
      by_intent == intent_branch(mem, a.intent, name_prefix)
      catalog == IF by_context.branch # None THEN by_context.responses
                 ELSE IF by_emotion.branch # None THEN by_emotion.responses
                 ELSE by_intent.responses
  IN {catalog[i] : i \in 1..Len(catalog)}

\* C15: a text that a templated branch answers on a fresh engine is answered
\* by the same branch, with a reply of that branch's catalog, every time it is
\* sent, whatever the memory holds by then
C15_TemplatedBranchStable ==
  (NonEmptyTurn /\ FRESH_BRANCH[user_text] \in TEMPLATED_BRANCHES) =>
    /\ branch = FRESH_BRANCH[user_text]
    /\ reply \in TemplatedCatalog(memory, user_text)

\* the sad branch answered the fourth "I feel sad" in a row, with an insight
\* about the last turns available
C15_Witness ==
  /\ user_text = "I feel sad"
  /\ branch = "sad"
  /\ memory.turn_count = 4
  /\ get_emotional_insight(memory) = STRUGGLING_MESSAGE

\* C12: an exception raised inside generate_reply never leaves the caller
\* without a reply: respond and the HTTP handler both answer it with the
\* apology that quotes the exception
C12_FaultsAnswered ==
  branch = "raise" => reply = error_reply(STRIP_ERROR)

\* C14: a request of caller B, who never gave a name, that the sad branch
\* answers after caller A stored the name Alex is answered with Alex's name
\* (or with the one template that has no name slot), and its mood step starts
\* from the score the turns of both callers left
C14_SharedMemory ==
  [][(caller' = "B" /\ branch' = "sad" /\ memory.username = "Alex") =>
       /\ Contains(reply', "Alex") \/ Contains(reply', "the sadness in your words")
       /\ memory'.username = "Alex"
       /\ memory'.mood_score = Max(-10, memory.mood_score - 3)]_vars

\* B's first request was answered with A's name and moved the score A's sad
\* turn had left at -3
C14_Witness ==
  /\ caller = "B"
  /\ branch = "sad"
  /\ Contains(reply, "Alex")
  /\ memory.mood_score = -6
  /\ Len(hist) = 3
  /\ hist[1].user = "my name is Alex" /\ hist[2].user = "I feel sad"

\* C16: load_memory merges the file into the memory: every field of the
\* document takes the document's value, every field absent from it keeps its
\* value, nothing happens without a file; so a load right after a save leaves
\* the memory as it was.
C16_LoadMerges ==
  [][entry' = "load_memory" =>
       /\ disk.exists =>
            /\ DOMAIN memory' = DOMAIN memory
            /\ \A k \in DOMAIN memory :
                 memory'[k] = IF k \in DOMAIN disk.document.members
                              THEN json_load(disk.document.members[k])
                              ELSE memory[k]
       /\ ~disk.exists => memory' = memory
       /\ entry = "save_memory" => memory' = memory]_vars

\* a file with the name alone was merged into a memory that two turns had
\* changed, the result was saved, and the dump was loaded back
C16_Witness ==
  /\ entry = "load_memory"
  /\ disk = save_memory(memory)
  /\ memory.username = "Sam"
  /\ memory.turn_count = 2
  /\ memory.mood_score = -3
  /\ Len(memory.conversation_context) = 4

\* C17: however the console loop ends, the memory file holds the memory as it
\* is at the end.
C17_PersistedAtEnd == console = "ended" => disk = save_memory(memory)

\* the memory after the turn of thread t alone, from mem
TurnOf(mem, t, coin) ==
  generate_reply(mem, threads[t].user_text, threads[t].sentiment_label, 0, coin).memory

\* the memories the two turns give one after the other, in either order
SerialMemories ==
  {TurnOf(TurnOf(DefaultMemory, t[1], c[1]), t[2], c[2]) :
     t \in {<< 1, 2 >>, << 2, 1 >>}, c \in BOOLEAN \X BOOLEAN}

\* the memories one of the two turns gives alone
SingleMemories == {TurnOf(DefaultMemory, t, c) : t \in Threads, c \in BOOLEAN}

RACED_FIELDS == {"mood_score", "turn_count", "relationship_level"}

\* the texts of the user's turns in conversation_context
ContextUsers(mem) ==
  [i \in 1..Len(mem.conversation_context) |-> mem.conversation_context[i].user]

AllDone == \A t \in Threads : threads[t].pc = "done"

\* C13: two turns that run at the same time on the one engine race on the memory
\* fields they read and then assign. After both, each of mood_score, turn_count
\* and relationship_level holds the value of a serial order or the value one
\* turn alone gives (the other turn's update lost), while the appends of both
\* turns are in the histories.
C13_LostUpdate ==
  AllDone =>
    /\ \A f \in RACED_FIELDS :
         memory[f] \in {m[f] : m \in SerialMemories \cup SingleMemories}
    /\ Len(memory.emotion_history) =
         Cardinality({t \in Threads : strip(threads[t].user_text) # ""})
    /\ \E m \in SerialMemories : ContextUsers(memory) = ContextUsers(m)
    /\ Len(hist) = 2

\* both turns said "I feel sad" and one decrement of the mood score and one
\* increment of the turn count are lost: the memory of neither serial order
C13_Witness ==
  /\ AllDone
  /\ \A t \in Threads : threads[t].user_text = "I feel sad"
  /\ memory.mood_score = -3
  /\ memory.turn_count = 1
  /\ \A m \in SerialMemories : m.mood_score = -6 /\ m.turn_count = 2
  /\ Len(memory.emotion_history) = 2

BREAKUP_HINT == "Say 'tips' for healing strategies or 'breathe' to calm down."

\* C21: the context branches come before the emotion branches. A turn with the
\* breakup context and no self-harm intent is answered from the breakup catalog
\* whatever the emotion, and leaves the mood score as update_mood set it and the
\* relationship level as it was; the family, academic and job branches answer
\* exactly when the emotion is in their own subset; health and financial are
\* answered by no context branch.
C21_ContextBeforeEmotion ==
  [][LET ut == strip(user_text')
         a == Analysis(ut)
     IN (ut # "" /\ a.intent # "self_harm") =>
          /\ a.context = "breakup" =>
               /\ branch' = "breakup"
               /\ Contains(reply', BREAKUP_HINT)
               /\ memory'.mood_score =
                    adjusted_mood(memory.mood_score, sentiment_label', a.emotion, a.intensity)
               /\ memory'.relationship_level = memory.relationship_level
          /\ branch' = "family_issue" <=>
               (a.context = "family_issue" /\ a.emotion \in {"angry", "hurt", "sad"})
          /\ branch' = "academic_stress" <=>
               (a.context = "academic_stress"
                  /\ a.emotion \in {"anxious", "overwhelmed", "scared"})
          /\ branch' = "job_stress" <=>
               (a.context = "job_stress"
                  /\ a.emotion \in {"anxious", "overwhelmed", "angry", "insecure"})
          /\ a.context \in {"health", "financial"} => branch' \notin CONTEXT_BRANCHES]_vars

\* after "I feel sad", a hopeless text about a breakup got a breakup reply and
\* the mood score went from -3 to -6, not to -10
C21_Witness ==
  /\ user_text = "I feel hopeless after the breakup"
  /\ branch = "breakup"
  /\ Contains(reply, BREAKUP_HINT)
  /\ memory.mood_score = -6
  /\ memory.last_emotion = "hopeless"

\* C22: a turn whose detected emotion is hopeless, and which neither the
\* self-harm branch nor a context branch answers, ends with the mood score at
\* -10, whatever the score before and the intensity.
C22_HopelessFloorsMood ==
  [][(/\ strip(user_text') # ""
      /\ Analysis(strip(user_text')).emotion = "hopeless"
      /\ branch' \notin {"self_harm"} \cup CONTEXT_BRANCHES)
       => memory'.mood_score = -10]_vars

\* the mood score was 9; update_mood took the step of a slight hopelessness
\* and recorded 8, and the hopeless branch then set -10
C22_Witness ==
  /\ user_text = "I feel slightly hopeless"
  /\ branch = "hopeless"
  /\ LastMood.emotion = "hopeless"
  /\ LastMood.mood_score = 8
  /\ memory.mood_score = -10

MOOD_NEUTRAL_EMOTIONS ==
  {"jealous", "confused", "tired", "numb", "bored", "nostalgic", "curious"}

\* C23: update_mood applies the sentiment label only when no emotion is
\* detected: +1 for Positive, -1 for Negative, nothing for Neutral or no label,
\* within [-10, 10]. With an emotion of the negative or the positive list it
\* takes the step of the emotion whatever the label, and with one of the seven
\* other emotions it leaves the score as it was whatever the label; in every
\* case it appends the history entry, which holds the score it leaves.
C23_SentimentLabelOnlyWithoutEmotion ==
  [][LET a == Analysis(strip(user_text'))
         score == memory.mood_score
         e == memory'.emotion_history[Len(memory'.emotion_history)]
     IN strip(user_text') # "" =>
          /\ e.timestamp = now
          /\ e.emotion = a.emotion
          /\ e.sentiment = sentiment_label'
          /\ a.emotion = None =>
               e.mood_score = IF sentiment_label' = "Positive" THEN Min(10, score + 1)
                              ELSE IF sentiment_label' = "Negative" THEN Max(-10, score - 1)
                              ELSE score
          /\ a.emotion \in MOOD_NEUTRAL_EMOTIONS => e.mood_score = score
          /\ a.emotion \in MOOD_NEGATIVE_EMOTIONS =>
               e.mood_score = Max(-10, score - mood_step(a.intensity))
          /\ a.emotion \in MOOD_POSITIVE_EMOTIONS =>
               e.mood_score = Min(10, score + mood_step(a.intensity))]_vars

\* a bored turn labelled Positive after a turn that left the score at -7
C23_Witness ==
  /\ user_text = "I feel bored"
  /\ sentiment_label = "Positive"
  /\ LastMood.emotion = "bored"
  /\ LastMood.sentiment = "Positive"
  /\ LastMood.mood_score = -7
  /\ memory.mood_score = -7

\* the user's turns among the records of conversation_context
UserTurns(context) ==
  LET IsUserTurn(e) == "user" \in DOMAIN e
  IN SelectSeq(context, IsUserTurn)

\* C24: the name-introduction branch answers exactly the turns with no emotion,
\* no context and an extracted name. Such a turn stores the name, raises
\* relationship_level by 1 up to 10 and names the user in the reply; it leaves
\* turn_count, the user's turns of conversation_context, last_emotion,
\* last_emotion_intensity and last_topic as they were; and update_mood has
\* run: one entry appended to emotion_history, the mood score moved by the
\* sentiment label alone.
C24_NameIntroduction ==
  [][LET a == Analysis(strip(user_text'))
         old == memory.emotion_history
         new == memory'.emotion_history
     IN strip(user_text') # "" =>
          /\ branch' = "name_introduction" <=>
               (a.emotion = None /\ a.context = None /\ a.name # None)
          /\ branch' = "name_introduction" =>
               /\ memory'.username = a.name
               /\ memory'.relationship_level = Min(10, memory.relationship_level + 1)
               /\ Contains(reply', a.name)
               /\ memory'.turn_count = memory.turn_count
               /\ UserTurns(memory'.conversation_context)
                    = UserTurns(memory.conversation_context)
               /\ memory'.last_emotion = memory.last_emotion
               /\ memory'.last_emotion_intensity = memory.last_emotion_intensity
               /\ memory'.last_topic = memory.last_topic
               /\ Len(new) = Len(old) + 1
               /\ SubSeq(new, 1, Len(old)) = old
               /\ new[Len(new)].emotion = None
               /\ new[Len(new)].timestamp = now
               /\ memory'.mood_score =
                    (IF sentiment_label' = "Positive" THEN Min(10, memory.mood_score + 1)
                     ELSE IF sentiment_label' = "Negative"
                     THEN Max(-10, memory.mood_score - 1)
                     ELSE memory.mood_score)]_vars

\* a name given with a Negative label after five loved turns and an exam turn:
\* the level stays at its cap, the mood goes from 10 to 9, the six recorded
\* turns, the topic and the last emotion stay
C24_Witness ==
  /\ branch = "name_introduction"
  /\ sentiment_label = "Negative"
  /\ memory.username = "Alex"
  /\ memory.relationship_level = 10
  /\ memory.mood_score = 9
  /\ memory.turn_count = 6
  /\ memory.last_topic = "exam"
  /\ memory.last_emotion = "loved"
  /\ Len(memory.emotion_history) = 7

\* the replies the intent branch picks from when relationship_level is below 5
NewcomerCatalog(mem, intent) ==
  LET responses == intent_branch([mem EXCEPT !.relationship_level = 0], intent,
                                 name_prefix_of(mem)).responses
  IN {responses[i] : i \in 1..Len(responses)}

\* C25: on a turn with no emotion that no context branch (and not the name
\* introduction) answers, the greeting, bye and thanks intents each pick the
\* reply from one catalog when relationship_level is below 5 and from another
\* when it is 5 or more; bye and thanks raise the level by 1 up to 10 and
\* greeting leaves it; the exam, study and job intents set last_topic to their
\* label, and no other turn changes last_topic.
C25_IntentBranches ==
  [][LET a == Analysis(strip(user_text'))
         level == memory.relationship_level
     IN /\ (/\ strip(user_text') # ""
            /\ a.emotion = None
            /\ branch' \notin CONTEXT_BRANCHES \cup {"name_introduction"}) =>
              /\ a.intent \in {"greeting", "bye", "thanks"} =>
                   /\ branch' = a.intent
                   /\ (reply' \in NewcomerCatalog(memory, a.intent)) <=> (level < 5)
                   /\ memory'.relationship_level =
                        (IF a.intent = "greeting" THEN level ELSE Min(10, level + 1))
              /\ a.intent \in {"exam", "study", "job"} => memory'.last_topic = a.intent
        /\ memory'.last_topic # memory.last_topic => branch' \in {"exam", "study", "job"}]_vars

\* C26: the insight message is given only in place of the fallback: a turn
\* whose text asks for a tool whose precondition holds (breathing, grounding,
\* tips or affirmation with last_emotion set) and that reaches the tools is
\* answered by the tool, never by the insight message.
C26_InsightOnlyReplacesFallback ==
  [][(/\ strip(user_text') # ""
      /\ branch' \in {"insight", "tips", "breathing", "grounding", "affirmation", "fallback"}
      /\ tool_branch(memory', Analysis(strip(user_text'))).branch # None)
       => branch' # "insight"]_vars

\* C27: get_emotional_insight gives nothing for a history of fewer than 3
\* entries; otherwise it looks at the entries with an emotion among the last 5:
\* the struggling message when at least 3 of them hold sad, anxious, lonely,
\* overwhelmed or hopeless; else the volatility message when there are at least
\* 4 of them with at least 4 different emotions; else nothing.
C27_EmotionalInsight ==
  LET h == memory.emotion_history
      window == {i \in 1..Len(h) : i > Len(h) - 5 /\ h[i].emotion # None}
      struggling ==
        {i \in window : h[i].emotion \in {"sad", "anxious", "lonely", "overwhelmed", "hopeless"}}
      distinct == {h[i].emotion : i \in window}
  IN get_emotional_insight(memory) =
       (IF Len(h) < 3 THEN None
        ELSE IF Cardinality(struggling) >= 3 THEN STRUGGLING_MESSAGE
        ELSE IF Cardinality(window) >= 4 /\ Cardinality(distinct) >= 4
        THEN VOLATILITY_MESSAGE
        ELSE None)

\* six turns: the first is out of the window, the last five hold three
\* struggling entries and four different emotions, and the struggling message
\* is the insight
C27_Witness ==
  /\ Len(memory.emotion_history) = 6
  /\ memory.emotion_history[1].emotion = None
  /\ [i \in 1..5 |-> memory.emotion_history[i + 1].emotion]
       = << "sad", "lonely", "happy", "bored", "sad" >>
  /\ get_emotional_insight(memory) = STRUGGLING_MESSAGE

\* C28: last_emotion is none or one of the 26 emotion labels; a turn with a
\* detected emotion sets it to that emotion, also when the self-harm branch or
\* a context branch answers, and no other turn changes it, so it is never
\* reset. The tips and affirmation generators answer only with last_emotion
\* set, for that emotion; a request for them without it is answered by a later
\* trigger or by the fallback.
C28_LastEmotion ==
  [][LET ut == strip(user_text')
         a == Analysis(ut)
     IN /\ memory'.last_emotion \in EmotionLabels \cup {None}
        /\ memory'.last_emotion =
             (IF ut # "" /\ a.emotion # None THEN a.emotion ELSE memory.last_emotion)
        /\ branch' = "tips" =>
             /\ memory.last_emotion # None
             /\ reply' = generate_support_tips(memory.last_emotion)
        /\ branch' = "affirmation" =>
             /\ memory.last_emotion # None
             /\ \E i \in 1..Len(generate_affirmation(memory.last_emotion)) :
                  reply' = generate_affirmation(memory.last_emotion)[i]
        /\ (ut # "" /\ (a.tips \/ a.affirmation) /\ memory'.last_emotion = None
              /\ branch' # "name_introduction")
             => branch' \in {"breathing", "grounding", "fallback"}]_vars

\* a sad text with self-harm phrasing was answered by the crisis message and
\* set last_emotion; two turns without an emotion later, tips are given for sad
C28_Witness ==
  /\ user_text = "tips"
  /\ branch = "tips"
  /\ reply = generate_support_tips("sad")
  /\ memory.last_emotion = "sad"
  /\ Len(memory.conversation_context) = 3
  /\ memory.conversation_context[1].intent = "self_harm"
  /\ memory.conversation_context[1].emotion = "sad"
  /\ memory.conversation_context[2].emotion = None

\* the weight of the first modifier of the intensity lexicon, in lexicon
\* order, that is a substring of the lowered text t, and 10 (1.0) without one
LexiconWeight(t) ==
  IF Contains(t, "very") THEN 20
  ELSE IF Contains(t, "extremely") THEN 25
  ELSE IF Contains(t, "really") THEN 18
  ELSE IF Contains(t, "so") THEN 17
  ELSE IF Contains(t, "incredibly") THEN 22
  ELSE IF Contains(t, "slightly") THEN 5
  ELSE IF Contains(t, "a bit") THEN 6
  ELSE IF Contains(t, "little") THEN 7
  ELSE IF Contains(t, "somewhat") THEN 8
  ELSE IF Contains(t, "kinda") THEN 7
  ELSE 10

\* C29: when an emotion is detected, the intensity is the weight of the first
\* modifier in lexicon order that is a substring of the lowercased text, 1.0
\* without one; when no emotion is detected the result is (none, 1.0) whatever
\* modifier the text holds, so every emotion_history entry without an emotion
\* has intensity 1.0
C29_IntensityByLexiconOrder ==
  /\ NonEmptyTurn =>
       LET d == detect_emotion_with_intensity(user_text)
       IN /\ d.intensity = (IF d.emotion = None THEN 10
                            ELSE LexiconWeight(lower(strip(user_text))))
          /\ LastMood.emotion = d.emotion
          /\ LastMood.intensity = d.intensity
  /\ \A i \in 1..Len(memory.emotion_history) :
       memory.emotion_history[i].emotion = None => memory.emotion_history[i].intensity = 10

\* "slightly" comes first in the text and "very" first in the lexicon: the sad
\* turn is recorded with 2.0, after a turn with "really" and no emotion that
\* was recorded with 1.0
C29_Witness ==
  /\ user_text = "I am slightly and very sad"
  /\ Len(memory.emotion_history) = 2
  /\ memory.conversation_context[1].user = "it is really something"
  /\ memory.emotion_history[1].emotion = None
  /\ memory.emotion_history[1].intensity = 10
  /\ LastMood.emotion = "sad"
  /\ LastMood.intensity = 20

\* the priority label of the lowered text t: the first in the order self_harm,
\* greeting, bye, thanks, insult whose pattern matches, or None
PriorityLabel(t) ==
  LET Matches(k) == re_search_words(PRIORITY_INTENTS[k].pattern, t)
  IN IF Matches(1) THEN "self_harm"
     ELSE IF Matches(2) THEN "greeting"
     ELSE IF Matches(3) THEN "bye"
     ELSE IF Matches(4) THEN "thanks"
     ELSE IF Matches(5) THEN "insult"
     ELSE None

\* the keyword group of the lowered text t: exam, then study, then job, else
\* general
KeywordLabel(t) ==
  IF re_search({"exam", "test", "quiz", "midterm", "final"}, t) THEN "exam"
  ELSE IF re_search({"study", "studying", "learn", "revision"}, t) THEN "study"
  ELSE IF re_search({"job", "interview", "career", "resume"}, t) THEN "job"
  ELSE "general"

\* both labels and the model's prediction, tabulated over the texts of the turns
INTENT_RULE ==
  [ut \in {strip(u) : u \in IntentUtterances \cup IntentPrep} |->
     [priority |-> PriorityLabel(lower(ut)),
      keyword |-> KeywordLabel(lower(ut)),
      predicted |-> predict_intent(ut)]]

\* C30: the intent recorded for a turn is the first matching priority label in
\* the order self_harm, greeting, bye, thanks, insult, whatever exam, study or
\* job keywords the text holds, and such a turn leaves last_topic as it was;
\* without a priority match the intent is the first matching group among exam,
\* study, job, else general
C30_PriorityBeforeKeywords ==
  [][LET ut == strip(user_text')
         context == memory'.conversation_context
     IN (ut # "" /\ branch' # "name_introduction") =>
          /\ Len(context) > 0
          /\ context[Len(context)].user = ut
          /\ context[Len(context)].intent =
               (IF INTENT_RULE[ut].priority # None THEN INTENT_RULE[ut].priority
                ELSE INTENT_RULE[ut].keyword)
          /\ INTENT_RULE[ut].predicted = context[Len(context)].intent
          /\ INTENT_RULE[ut].priority # None => memory'.last_topic = memory.last_topic]_vars

\* after a turn that set last_topic to study, a greeting that holds the word
\* quiz is a greeting and last_topic is still study
C30_Witness ==
  /\ user_text = "hello my quiz"
  /\ branch = "greeting"
  /\ memory.conversation_context[Len(memory.conversation_context)].intent = "greeting"
  /\ memory.conversation_context[Len(memory.conversation_context) - 1].intent = "study"
  /\ memory.last_topic = "study"

\* C31: after the turn "I feel extremely anxious about my exam", which a
\* context branch answers, last_emotion is anxious and last_emotion_intensity
\* is 2.2
C31_ExamTurnCaches ==
  [][user_text' = ExamTurn =>
       /\ branch' = "academic_stress"
       /\ memory'.last_emotion = "anxious"
       /\ memory'.last_emotion_intensity = 22]_vars

\* the five buckets of the mood score
MOOD_BUCKETS ==
  << [state |-> "very_positive", scores |-> 7..10],
     [state |-> "positive", scores |-> 3..6],
     [state |-> "neutral", scores |-> -2..2],
     [state |-> "negative", scores |-> -6..-3],
     [state |-> "very_negative", scores |-> -10..-7] >>

\* C32: the mood state is determined by the mood score alone, and the five
\* buckets 7..10 very_positive, 3..6 positive, -2..2 neutral, -6..-3 negative,
\* -10..-7 very_negative partition -10..10: every score lies in exactly one
\* bucket and get_mood_state returns that bucket's state, for the score the
\* memory holds and for every other score of the range
C32_MoodStateBuckets ==
  /\ memory.mood_score \in -10..10
  /\ \A score \in -10..10 :
       /\ \E k \in 1..5 :
            /\ score \in MOOD_BUCKETS[k].scores
            /\ \A j \in 1..5 : score \in MOOD_BUCKETS[j].scores => j = k
            /\ get_mood_state([memory EXCEPT !.mood_score = score]) = MOOD_BUCKETS[k].state
  /\ \E k \in 1..5 :
       /\ memory.mood_score \in MOOD_BUCKETS[k].scores
       /\ get_mood_state(memory) = MOOD_BUCKETS[k].state

\* two confident turns took the score to 6, the highest score of positive, and
\* a turn with a positive label and no emotion took it to 7, the lowest score
\* of very_positive
C32_Witness ==
  /\ Len(memory.emotion_history) = 3
  /\ memory.emotion_history[1].emotion = "confident"
  /\ memory.emotion_history[2].emotion = "confident"
  /\ LastMood.emotion = None
  /\ LastMood.sentiment = "Positive"
  /\ memory.mood_score = 7
  /\ get_mood_state(memory) = "very_positive"

\* C33: after every non-empty turn the mood score recorded in the newest
\* emotion_history entry equals the mood score the memory holds
C33_HistorySnapshotCurrent ==
  (NonEmptyTurn /\ memory.emotion_history # << >>) =>
    LastMood.mood_score = memory.mood_score
=============================================================================
